---------------------------- MODULE Spec2Model ----------------------------
(***************************************************************************)
(* A model of the lru repository: the intrusive doubly linked ring         *)
(* (package internal), the basic LRU cache (package basic_lru), the        *)
(* expirable LRU cache (package expirable_lru) and the thread-safe cache   *)
(* (package main, cache.go).                                               *)
(*                                                                         *)
(* Entries live in a small arena: an *Entry is a node number, the list's   *)
(* sentinel (&l.root) is node 0 and a nil pointer is NIL.  The code never  *)
(* looks at an address but to compare two of them, and it allocates an     *)
(* Entry for key k only after the index lookup for k missed, so the        *)
(* allocator of the model hands out node k for key k.  A node that no map, *)
(* link or local variable references any more is garbage; the model clears *)
(* its fields.                                                             *)
(***************************************************************************)
EXTENDS Integers, Sequences, FiniteSets, TLC

\* ------------------------------------------------------------- bounds
MaxKey == 3
MaxSize == 3
\* the keys the expirable cache is called with
MaxXKey == 2
\* the clock runs from 0 to MaxTime
MaxTime == 2
\* the ttl handed to the expirable cache, in ticks of the clock
MaxTtl == 1
\* the sweeps of the expirable cache that are followed
MaxSweeps == 1
\* the clock under a fair schedule runs from 0 to MaxFairTime
MaxFairTime == 3

KeySet == 1..MaxKey
\* V is any: the caches store, hand back and pass on values and never look
\* inside one, so two values, a new one and a stale one, stand for all
ValSet == {"a", "b"}
\* sizes handed to NewLRU and Resize: negative, zero and positive ones
SizeArgs == (0 - 1)..MaxSize

\* the keys the expirable cache is called with
XKeySet == 1..MaxXKey

\* the sizes it is handed: negative, zero, fewer than the keys, as many
XSizeArgs == (0 - 1)..MaxXKey

\* the ttl handed to NewLRU: none (0) or a number of ticks
TtlArgs == 0..MaxTtl

\* the value it is called with: the cache never looks at a value, and these
\* steps keep no record of what a call returned
AVal == CHOOSE v \in ValSet : TRUE

\* the addresses of the Entry values: one per key
Nodes == KeySet
root == 0
NIL == 0 - 1
\* the zero value of K and of V
NoKey == 0
NoVal == "zero"
\* time.Time{} : the zero time, before every instant the clock shows
ZeroTime == 0

VARIABLES
  kind,     \* which cache the program constructed: "none", "basic", "exp",
            \* "facade"; the variables of the others hold NIL
  lru,      \* the basic LRU (basic_lru.LRU and its evictList)
  xl,       \* the expirable LRU (expirable_lru.LRU, its evictList and buckets)
  now,      \* the clock: what time.Now() returns
  sweep,    \* the goroutine of deleteExpired: where it is and what it holds
  fc,       \* the thread-safe Cache: its LRU and its eviction buffers
  call,     \* the call of the Cache under way, past its Unlock()
  lock,     \* Cache.lock, a sync.RWMutex: its writer and its readers
  th,       \* the concurrent callers of the Cache: where each is in its call
  ref,      \* the sequential reference LRU the callers' calls are replayed on
  crit,     \* the last critical section of the Cache that completed
  err,      \* the error NewLRU returned
  lastOp,   \* the last call made: its name, arguments, results and callbacks
  trace,    \* SpecAdds only: the keys added so far with Add's result
  cbLog,    \* SpecAdds only: every eviction callback so far, in order
  alive     \* expirable LRU: for each key, the Add no caller has undone since

\* the Cache and its callers
facVars == <<fc, call, lock, th, ref, crit>>

vars == <<kind, lru, xl, now, sweep, facVars, err, lastOp, trace, cbLog, alive>>

\* ------------------------------------------------- package internal: the list

\* A cache value: LRU's fields, its LRUList (len and the ring's links) and the
\* fields of every Entry.  cb collects the onEvict calls of the running
\* operation, in order.
BlankLRU(size, onEvict) ==
  [ size    |-> size,
    onEvict |-> onEvict,
    len     |-> 0,
    next    |-> [n \in {root} \cup Nodes |-> NIL],
    prev    |-> [n \in {root} \cup Nodes |-> NIL],
    list    |-> [n \in Nodes |-> FALSE],
    key     |-> [n \in Nodes |-> NoKey],
    val     |-> [n \in Nodes |-> NoVal],
    exp     |-> [n \in Nodes |-> ZeroTime],
    bkt     |-> [n \in Nodes |-> 0],
    entries |-> [k \in KeySet |-> NIL],
    cb      |-> << >> ]

ListInit(c) ==
  [c EXCEPT !.next[root] = root, !.prev[root] = root, !.len = 0]

lazyInit(c) ==
  IF c.next[root] = NIL THEN ListInit(c) ELSE c

NewList(c) == ListInit(c)

ListLen(c) == c.len

Back(c) == IF c.len = 0 THEN NIL ELSE c.prev[root]

PrevEntry(c, e) ==
  IF c.list[e] /\ c.prev[e] # root THEN c.prev[e] ELSE NIL

\* insert e after at
insert(c, e, at) ==
  LET c1 == [c  EXCEPT !.prev[e] = at]
      c2 == [c1 EXCEPT !.next[e] = c1.next[at]]
      c3 == [c2 EXCEPT !.next[c2.prev[e]] = e]
      c4 == [c3 EXCEPT !.prev[c3.next[e]] = e]
  IN  [c4 EXCEPT !.list[e] = TRUE, !.len = @ + 1]

\* &Entry{Key: k, Value: v, ExpiresAt: expiresAt}: the address of the new Entry
NewEntry(c, k) == k

insertValue(c, k, v, expiresAt, at) ==
  LET e  == NewEntry(c, k)
      c1 == [c EXCEPT !.key[e] = k, !.val[e] = v, !.exp[e] = expiresAt,
                      !.bkt[e] = 0, !.next[e] = NIL, !.prev[e] = NIL,
                      !.list[e] = FALSE]
  IN  [c |-> insert(c1, e, at), e |-> e]

\* Remove that does not count the entry off
ListRemoveKeepsLen(c, e) ==
  LET c1 == [c  EXCEPT !.next[c.prev[e]] = c.next[e]]
      c2 == [c1 EXCEPT !.prev[c1.next[e]] = c1.prev[e]]
  IN  [c2 EXCEPT !.next[e] = NIL, !.prev[e] = NIL, !.list[e] = FALSE]

ListRemove(c, e) ==
  LET c1 == [c  EXCEPT !.next[c.prev[e]] = c.next[e]]
      c2 == [c1 EXCEPT !.prev[c1.next[e]] = c1.prev[e]]
  IN  [c2 EXCEPT !.next[e] = NIL, !.prev[e] = NIL, !.list[e] = FALSE,
                 !.len = @ - 1]

\* move that forgets to unlink e from its old neighbours
moveNoUnlink(c, e, at) ==
  IF e = at THEN c
  ELSE LET c3 == [c  EXCEPT !.prev[e] = at]
           c4 == [c3 EXCEPT !.next[e] = c3.next[at]]
           c5 == [c4 EXCEPT !.next[c4.prev[e]] = e]
       IN  [c5 EXCEPT !.prev[c5.next[e]] = e]

move(c, e, at) ==
  IF e = at THEN c
  ELSE LET c1 == [c  EXCEPT !.next[c.prev[e]] = c.next[e]]
           c2 == [c1 EXCEPT !.prev[c1.next[e]] = c1.prev[e]]
           c3 == [c2 EXCEPT !.prev[e] = at]
           c4 == [c3 EXCEPT !.next[e] = c3.next[at]]
           c5 == [c4 EXCEPT !.next[c4.prev[e]] = e]
       IN  [c5 EXCEPT !.prev[c5.next[e]] = e]

PushToFront(c, k, v) == insertValue(lazyInit(c), k, v, ZeroTime, root)

PushToFrontExpirable(c, k, v, expiresAt) ==
  insertValue(lazyInit(c), k, v, expiresAt, root)

MoveToFront(c, e) ==
  IF ~c.list[e] \/ c.next[root] = e THEN c ELSE move(c, e, root)

\* the garbage collector: nothing references e any more
Collect(c, e) ==
  [c EXCEPT !.key[e] = NoKey, !.val[e] = NoVal, !.exp[e] = ZeroTime,
            !.bkt[e] = 0, !.next[e] = NIL, !.prev[e] = NIL, !.list[e] = FALSE]

\* --------------------------------------------------- package basic_lru: LRU

\* l.onEvict(k, v), when a callback was given
onEvict(c, k, v) ==
  IF c.onEvict THEN [c EXCEPT !.cb = Append(@, <<k, v>>)] ELSE c

removeEntry(c, e) ==
  LET c1 == ListRemove(c, e)
      c2 == [c1 EXCEPT !.entries[c1.key[e]] = NIL]
      c3 == onEvict(c2, c2.key[e], c2.val[e])
  IN  Collect(c3, e)

\* removeOldest that takes the front of the list instead of its back
removeNewest(c) ==
  IF c.len # 0 THEN removeEntry(c, c.next[root]) ELSE c

removeOldest(c) ==
  IF Back(c) # NIL THEN removeEntry(c, Back(c)) ELSE c

\* the entries from Back() along PrevEntry(), as the loops of Keys and Values
\* walk them; fuel bounds the walk by the number of nodes
RECURSIVE Walk(_, _, _)
Walk(c, e, fuel) ==
  IF e = NIL \/ fuel = 0 THEN << >>
  ELSE <<e>> \o Walk(c, PrevEntry(c, e), fuel - 1)

WalkAll(c) == Walk(c, Back(c), Cardinality(Nodes) + 1)

\* keys := make([]K, Len()); keys[i] = entry.Key for each entry walked
LRUKeys(c) ==
  LET w == WalkAll(c)
  IN  [i \in 1..c.len |-> IF i <= Len(w) THEN c.key[w[i]] ELSE NoKey]

LRUValues(c) ==
  LET w == WalkAll(c)
  IN  [i \in 1..c.len |-> IF i <= Len(w) THEN c.val[w[i]] ELSE NoVal]

LRULen(c) == ListLen(c)

LRUCap(c) == c.size

\* NewLRU that rejects only negative sizes
NewLRUAllowsZero(size, cb) ==
  IF size < 0
  THEN [l |-> NIL, nil |-> TRUE, err |-> TRUE]
  ELSE [l |-> NewList(BlankLRU(size, cb)), nil |-> FALSE, err |-> FALSE]

\* NewLRU(size, onEvict): [l, err, isNil]
NewLRU(size, cb) ==
  IF size <= 0
  THEN [l |-> NIL, nil |-> TRUE, err |-> TRUE]
  ELSE [l |-> NewList(BlankLRU(size, cb)), nil |-> FALSE, err |-> FALSE]

\* Add that updates the value of an existing key without moving it
LRUAddNoMove(c, k, v) ==
  IF c.entries[k] # NIL
  THEN [c |-> [c EXCEPT !.val[c.entries[k]] = v], evicted |-> FALSE]
  ELSE LET p     == PushToFront(c, k, v)
           c1    == [p.c EXCEPT !.entries[k] = p.e]
           evict == ListLen(c1) > c1.size
       IN  [c |-> IF evict THEN removeOldest(c1) ELSE c1, evicted |-> evict]

\* Add(key, value): [c, evicted]
LRUAdd(c, k, v) ==
  IF c.entries[k] # NIL
  THEN LET e  == c.entries[k]
           c1 == MoveToFront(c, e)
       IN  [c |-> [c1 EXCEPT !.val[e] = v], evicted |-> FALSE]
  ELSE LET p     == PushToFront(c, k, v)
           c1    == [p.c EXCEPT !.entries[k] = p.e]
           evict == ListLen(c1) > c1.size
       IN  [c |-> IF evict THEN removeOldest(c1) ELSE c1, evicted |-> evict]

\* Get(key): [c, value, ok]
LRUGet(c, k) ==
  IF c.entries[k] # NIL
  THEN LET e == c.entries[k]
       IN  [c |-> MoveToFront(c, e), value |-> c.val[e], ok |-> TRUE]
  ELSE [c |-> c, value |-> NoVal, ok |-> FALSE]

\* Contains(key): [c, ok]
LRUContains(c, k) == [c |-> c, ok |-> c.entries[k] # NIL]

\* Peek that refreshes the recency of the key, as Get does
LRUPeekMoves(c, k) ==
  IF c.entries[k] # NIL
  THEN [c |-> MoveToFront(c, c.entries[k]), value |-> c.val[c.entries[k]],
        ok |-> TRUE]
  ELSE [c |-> c, value |-> NoVal, ok |-> FALSE]

\* Peek(key): [c, value, ok]
LRUPeek(c, k) ==
  IF c.entries[k] # NIL
  THEN [c |-> c, value |-> c.val[c.entries[k]], ok |-> TRUE]
  ELSE [c |-> c, value |-> NoVal, ok |-> FALSE]

\* Remove(key): [c, ok]
LRURemove(c, k) ==
  IF c.entries[k] # NIL
  THEN [c |-> removeEntry(c, c.entries[k]), ok |-> TRUE]
  ELSE [c |-> c, ok |-> FALSE]

\* RemoveOldest(): [c, key, value, ok]
LRURemoveOldest(c) ==
  IF Back(c) # NIL
  THEN LET e == Back(c)
       IN  [c |-> removeEntry(c, e), key |-> c.key[e], value |-> c.val[e],
            ok |-> TRUE]
  ELSE [c |-> c, key |-> NoKey, value |-> NoVal, ok |-> FALSE]

\* GetOldest(): [c, key, value, ok]
LRUGetOldest(c) ==
  IF Back(c) # NIL
  THEN [c |-> c, key |-> c.key[Back(c)], value |-> c.val[Back(c)],
        ok |-> TRUE]
  ELSE [c |-> c, key |-> NoKey, value |-> NoVal, ok |-> FALSE]

\* the keys the map holds
MapKeys(c) == {k \in KeySet : c.entries[k] # NIL}

\* the orders in which "for k, v := range l.entries" may visit the map
RECURSIVE RangeOrders(_)
RangeOrders(S) ==
  IF S = {} THEN {<< >>}
  ELSE UNION {{<<x>> \o p : p \in RangeOrders(S \ {x})} : x \in S}

\* the loop of Purge over the map, visiting the keys in the order given
RECURSIVE PurgeLoop(_, _)
PurgeLoop(c, order) ==
  IF order = << >> THEN c
  ELSE LET k  == Head(order)
           e  == c.entries[k]
           c1 == onEvict(c, k, c.val[e])
           c2 == [c1 EXCEPT !.entries[k] = NIL]
       IN  PurgeLoop(Collect(c2, e), Tail(order))

\* Purge that forgets evictList.Init()
LRUPurgeNoInit(c, order) == PurgeLoop(c, order)

LRUPurge(c, order) == ListInit(PurgeLoop(c, order))

\* the loop of Resize started at i = 1
RECURSIVE TimesOneLess(_, _)
TimesOneLess(c, n) ==
  IF n <= 1 THEN c ELSE TimesOneLess(removeOldest(c), n - 1)

\* the loop of Resize: removeOldest() n times
RECURSIVE Times(_, _)
Times(c, n) == IF n <= 0 THEN c ELSE Times(removeOldest(c), n - 1)

\* Resize(size): [c, evicted]
LRUResize(c, size) ==
  LET d    == LRULen(c) - size
      diff == IF d < 0 THEN 0 ELSE d
      c1   == Times(c, diff)
  IN  [c |-> [c1 EXCEPT !.size = size], evicted |-> diff]

\* ----------------------------------------------- package expirable_lru: LRU

\* time.Hour * 24 * 365 * 100, the clock of the model ticking once an hour
noEvictionTTL == 24 * 365 * 100
numBuckets == 100
BucketIds == 0..(numBuckets - 1)

\* The expirable LRU: the fields of the basic one, the ttl, the buckets (the
\* keys of each bucket's map and its newestEntry) and the cursor nextBucket.
BlankXLRU(size, cb, ttl) ==
  [ size    |-> size,
    onEvict |-> cb,
    len     |-> 0,
    next    |-> [n \in {root} \cup Nodes |-> NIL],
    prev    |-> [n \in {root} \cup Nodes |-> NIL],
    list    |-> [n \in Nodes |-> FALSE],
    key     |-> [n \in Nodes |-> NoKey],
    val     |-> [n \in Nodes |-> NoVal],
    exp     |-> [n \in Nodes |-> ZeroTime],
    bkt     |-> [n \in Nodes |-> 0],
    entries |-> [k \in KeySet |-> NIL],
    cb      |-> << >>,
    ttl     |-> ttl,
    bent    |-> [b \in BucketIds |-> {}],
    bnew    |-> [b \in BucketIds |-> ZeroTime],
    nextBucket |-> 0 ]

\* NewLRU that keeps a negative size
XNewLRUNoClamp(size, cb, ttl) ==
  LET ttl1 == IF ttl <= 0 THEN noEvictionTTL ELSE ttl
  IN  [l |-> NewList(BlankXLRU(size, cb, ttl1)),
       sweeping |-> ttl1 # noEvictionTTL]

\* NewLRU(size, onEvict, ttl): the cache, and whether the goroutine of
\* deleteExpired was started
XNewLRU(size, cb, ttl) ==
  LET size1 == IF size < 0 THEN 0 ELSE size
      ttl1  == IF ttl <= 0 THEN noEvictionTTL ELSE ttl
  IN  [l |-> NewList(BlankXLRU(size1, cb, ttl1)),
       sweeping |-> ttl1 # noEvictionTTL]

addToBucket(c, e) ==
  LET bucketIndex == c.nextBucket % numBuckets
      c1 == [c  EXCEPT !.bkt[e] = bucketIndex]
      c2 == [c1 EXCEPT !.bent[bucketIndex] = @ \cup {c1.key[e]}]
  IN  IF c2.bnew[bucketIndex] < c2.exp[e]
      THEN [c2 EXCEPT !.bnew[bucketIndex] = c2.exp[e]]
      ELSE c2

\* removeFromBucket that leaves the entry in its bucket
removeFromBucketKeeps(c, e) == c

removeFromBucket(c, e) ==
  [c EXCEPT !.bent[c.bkt[e]] = @ \ {c.key[e]}]

XremoveEntry(c, e) ==
  LET c1 == ListRemove(c, e)
      c2 == [c1 EXCEPT !.entries[c1.key[e]] = NIL]
      c3 == removeFromBucket(c2, e)
      c4 == onEvict(c3, c3.key[e], c3.val[e])
  IN  Collect(c4, e)

XremoveOldest(c) ==
  IF Back(c) # NIL THEN XremoveEntry(c, Back(c)) ELSE c

\* Add(key, value) at time t: [c, evicted]
\* Add that evicts one entry too late
XAddEvictsLate(c, k, v, t) ==
  LET expiresAt == t + c.ttl
  IN  IF c.entries[k] # NIL
      THEN LET e  == c.entries[k]
               c1 == MoveToFront(c, e)
               c2 == removeFromBucket(c1, e)
               c3 == [c2 EXCEPT !.val[e] = v, !.exp[e] = expiresAt]
           IN  [c |-> addToBucket(c3, e), evicted |-> FALSE]
      ELSE LET p     == PushToFrontExpirable(c, k, v, expiresAt)
               c1    == [p.c EXCEPT !.entries[k] = p.e]
               c2    == addToBucket(c1, p.e)
               evict == c2.size > 0 /\ ListLen(c2) > c2.size + 1
           IN  [c |-> IF evict THEN XremoveOldest(c2) ELSE c2,
                evicted |-> evict]

XAdd(c, k, v, t) ==
  LET expiresAt == t + c.ttl
  IN  IF c.entries[k] # NIL
      THEN LET e  == c.entries[k]
               c1 == MoveToFront(c, e)
               c2 == removeFromBucket(c1, e)
               c3 == [c2 EXCEPT !.val[e] = v, !.exp[e] = expiresAt]
           IN  [c |-> addToBucket(c3, e), evicted |-> FALSE]
      ELSE LET p     == PushToFrontExpirable(c, k, v, expiresAt)
               c1    == [p.c EXCEPT !.entries[k] = p.e]
               c2    == addToBucket(c1, p.e)
               evict == c2.size > 0 /\ ListLen(c2) > c2.size
           IN  [c |-> IF evict THEN XremoveOldest(c2) ELSE c2,
                evicted |-> evict]

\* Get that removes an entry it finds expired
XGetRemovesStale(c, k, t) ==
  IF c.entries[k] # NIL
  THEN LET e == c.entries[k]
       IN  IF t > c.exp[e]
           THEN [c |-> XremoveEntry(c, e), value |-> NoVal, ok |-> FALSE]
           ELSE [c |-> MoveToFront(c, e), value |-> c.val[e], ok |-> TRUE]
  ELSE [c |-> c, value |-> NoVal, ok |-> FALSE]

\* Get(key) at time t: [c, value, ok]
XGet(c, k, t) ==
  IF c.entries[k] # NIL
  THEN LET e == c.entries[k]
       IN  IF t > c.exp[e]
           THEN [c |-> c, value |-> NoVal, ok |-> FALSE]
           ELSE [c |-> MoveToFront(c, e), value |-> c.val[e], ok |-> TRUE]
  ELSE [c |-> c, value |-> NoVal, ok |-> FALSE]

\* Contains(key): [c, ok]
XContains(c, k) == [c |-> c, ok |-> c.entries[k] # NIL]

\* Peek(key) at time t: [c, value, ok]
XPeek(c, k, t) ==
  IF c.entries[k] # NIL
  THEN LET e == c.entries[k]
       IN  IF t > c.exp[e]
           THEN [c |-> c, value |-> NoVal, ok |-> FALSE]
           ELSE [c |-> c, value |-> c.val[e], ok |-> TRUE]
  ELSE [c |-> c, value |-> NoVal, ok |-> FALSE]

\* Remove(key): [c, ok]
XRemove(c, k) ==
  IF c.entries[k] # NIL
  THEN [c |-> XremoveEntry(c, c.entries[k]), ok |-> TRUE]
  ELSE [c |-> c, ok |-> FALSE]

\* RemoveOldest(): [c, key, value, ok]
XRemoveOldest(c) ==
  IF Back(c) # NIL
  THEN LET e == Back(c)
       IN  [c |-> XremoveEntry(c, e), key |-> c.key[e], value |-> c.val[e],
            ok |-> TRUE]
  ELSE [c |-> c, key |-> NoKey, value |-> NoVal, ok |-> FALSE]

\* GetOldest(): [c, key, value, ok]
XGetOldest(c) ==
  IF Back(c) # NIL
  THEN [c |-> c, key |-> c.key[Back(c)], value |-> c.val[Back(c)],
        ok |-> TRUE]
  ELSE [c |-> c, key |-> NoKey, value |-> NoVal, ok |-> FALSE]

\* Keys() at time t: the keys walked from the back, the expired ones left out
XKeys(c, t) ==
  LET w       == WalkAll(c)
      live(e) == ~(t > c.exp[e])
      l       == SelectSeq(w, live)
  IN  [i \in 1..Len(l) |-> c.key[l[i]]]

XValues(c, t) ==
  LET w       == WalkAll(c)
      live(e) == ~(t > c.exp[e])
      l       == SelectSeq(w, live)
  IN  [i \in 1..Len(l) |-> c.val[l[i]]]

XLen(c) == ListLen(c)

XCap(c) == c.size

\* the first loop of Purge, over l.entries in the order given
RECURSIVE XPurgeLoop(_, _)
XPurgeLoop(c, order) ==
  IF order = << >> THEN c
  ELSE LET k  == Head(order)
           c1 == onEvict(c, k, c.val[c.entries[k]])
       IN  XPurgeLoop([c1 EXCEPT !.entries[k] = NIL], Tail(order))

\* the entries nothing references any more once the buckets are emptied
RECURSIVE CollectAll(_, _)
CollectAll(c, S) ==
  IF S = {} THEN c
  ELSE LET e == CHOOSE n \in S : TRUE
       IN  CollectAll(Collect(c, e), S \ {e})

\* Purge(): the callbacks, the index and every bucket emptied, the list reset
XPurge(c, order) ==
  LET c1 == XPurgeLoop(c, order)
      c2 == [c1 EXCEPT !.bent = [b \in BucketIds |-> {}]]
      c3 == ListInit(c2)
  IN  CollectAll(c3, {n \in Nodes : c3.key[n] # NoKey})

RECURSIVE XTimes(_, _)
XTimes(c, n) == IF n <= 0 THEN c ELSE XTimes(XremoveOldest(c), n - 1)

\* Resize(size): [c, evicted]
XResize(c, size) ==
  IF size <= 0
  THEN [c |-> [c EXCEPT !.size = 0], evicted |-> 0]
  ELSE LET d    == ListLen(c) - size
           diff == IF d < 0 THEN 0 ELSE d
           c1   == XTimes(c, diff)
       IN  [c |-> [c1 EXCEPT !.size = size], evicted |-> diff]

\* the loop of deleteExpired that leaves the last entry of the bucket
RECURSIVE SweepLoopLeavesOne(_, _)
SweepLoopLeavesOne(c, order) ==
  IF Len(order) <= 1 THEN c
  ELSE SweepLoopLeavesOne(XremoveEntry(c, NewEntry(c, Head(order))), Tail(order))

\* the loop of deleteExpired over the bucket's map, in the order given
RECURSIVE SweepLoop(_, _)
SweepLoop(c, order) ==
  IF order = << >> THEN c
  ELSE SweepLoop(XremoveEntry(c, NewEntry(c, Head(order))), Tail(order))

\* deleteExpired that moves the cursor on and removes nothing
deleteExpiredSkips(c, bucketIndex, order) ==
  [c EXCEPT !.nextBucket = (c.nextBucket + 1) % numBuckets]

\* deleteExpired from its second Lock() on: the bucket emptied, the cursor moved
deleteExpiredSweep(c, bucketIndex, order) ==
  LET c1 == SweepLoop(c, order)
  IN  [c1 EXCEPT !.nextBucket = (c1.nextBucket + 1) % numBuckets]

\* time.Until(l.buckets[bucketIndex].newestEntry)
timeToExpire(c, bucketIndex, t) == c.bnew[bucketIndex] - t

\* ------------------------------------------------- package main: Cache

\* the cache between two calls: the callbacks of the call are delivered
Fresh(c) == [c EXCEPT !.cb = << >>]

DefaultEvictedBufferSize == 16

\* The thread-safe Cache: its LRU, the eviction buffers and whether the user
\* gave a callback (c.onEvict != nil).
BlankCache(cb) ==
  [ lru           |-> NIL,
    evictedKeys   |-> << >>,
    evictedValues |-> << >>,
    onEvict       |-> cb ]

\* make([]K, 0, DefaultEvictedBufferSize): empty slices
initEvictBuffers(c) ==
  [c EXCEPT !.evictedKeys = << >>, !.evictedValues = << >>]

onEvictCB(c, k, v) ==
  [c EXCEPT !.evictedKeys = Append(@, k), !.evictedValues = Append(@, v)]

\* the calls the LRU made to its callback, which is c.onEvictCB, in order
RECURSIVE Buffered(_, _)
Buffered(c, cbs) ==
  IF cbs = << >> THEN c
  ELSE Buffered(onEvictCB(c, Head(cbs)[1], Head(cbs)[2]), Tail(cbs))

\* the Cache after a call of its LRU that left the LRU as l
AfterLRU(c, l) == [Buffered(c, l.cb) EXCEPT !.lru = Fresh(l)]

\* NewWithOnEvict(size, onEvict): [c, err]
NewWithOnEvict(size, cb) ==
  LET c0 == BlankCache(cb)
      c1 == IF cb THEN initEvictBuffers(c0) ELSE c0
      r  == NewLRU(size, cb)
  IN  [c |-> [c1 EXCEPT !.lru = r.l], nil |-> r.nil, err |-> r.err]

New(size) == NewWithOnEvict(size, FALSE)

\* What a call holds when it has unlocked: the pairs it still has to hand to
\* the user's callback and what it will return.
Pending(c, keys, values) ==
  [i \in 1..Len(keys) |-> <<keys[i], values[i]>>]

\* Add(key, value) from Lock() to Unlock(): [c, evicted, todo]
CacheAdd(c, k, v) ==
  LET r  == LRUAdd(c.lru, k, v)
      c1 == AfterLRU(c, r.c)
      d  == r.evicted /\ c1.onEvict
  IN  [c |-> IF d THEN [c1 EXCEPT !.evictedKeys = << >>,
                                  !.evictedValues = << >>]
                  ELSE c1,
       evicted |-> r.evicted,
       todo |-> IF d THEN << <<c1.evictedKeys[1], c1.evictedValues[1]>> >>
                     ELSE << >>]

\* Get that looks the key up without touching its recency
CacheGetNoTouch(c, k) ==
  LET r == LRUPeek(c.lru, k)
  IN  [c |-> AfterLRU(c, r.c), value |-> r.value, ok |-> r.ok]

\* Get(key) from Lock() to Unlock(): [c, value, ok]
CacheGet(c, k) ==
  LET r == LRUGet(c.lru, k)
  IN  [c |-> AfterLRU(c, r.c), value |-> r.value, ok |-> r.ok]

\* Remove(key) from Lock() to Unlock(): [c, ok, todo]
CacheRemove(c, k) ==
  LET r  == LRURemove(c.lru, k)
      c1 == AfterLRU(c, r.c)
      d  == r.ok /\ c1.onEvict
  IN  [c |-> IF d THEN [c1 EXCEPT !.evictedKeys = << >>,
                                  !.evictedValues = << >>]
                  ELSE c1,
       ok |-> r.ok,
       todo |-> IF d THEN << <<c1.evictedKeys[1], c1.evictedValues[1]>> >>
                     ELSE << >>]

\* Purge() from Lock() to Unlock(): [c, todo]
CachePurge(c, order) ==
  LET c1 == AfterLRU(c, LRUPurge(c.lru, order))
      d  == c1.onEvict /\ Len(c1.evictedKeys) > 0
  IN  [c |-> IF d THEN initEvictBuffers(c1) ELSE c1,
       todo |-> IF d THEN Pending(c1, c1.evictedKeys, c1.evictedValues)
                     ELSE << >>]

\* Resize that hands the buffers over and keeps them
CacheResizeKeepsBuffers(c, size) ==
  LET r  == LRUResize(c.lru, size)
      c1 == AfterLRU(c, r.c)
      d  == r.evicted > 0 /\ c1.onEvict
  IN  [c |-> c1,
       evicted |-> r.evicted,
       todo |-> IF d THEN Pending(c1, c1.evictedKeys, c1.evictedValues)
                     ELSE << >>]

\* Resize(size) from Lock() to Unlock(): [c, evicted, todo]
CacheResize(c, size) ==
  LET r  == LRUResize(c.lru, size)
      c1 == AfterLRU(c, r.c)
      d  == r.evicted > 0 /\ c1.onEvict
  IN  [c |-> IF d THEN initEvictBuffers(c1) ELSE c1,
       evicted |-> r.evicted,
       todo |-> IF d THEN Pending(c1, c1.evictedKeys, c1.evictedValues)
                     ELSE << >>]

\* Contains(key) between RLock() and RUnlock()
CacheContains(c, k) == LRUContains(c.lru, k).ok

\* Peek(key) between RLock() and RUnlock(): [value, ok]
CachePeek(c, k) == LRUPeek(c.lru, k)

\* ContainsOrAdd(key, value) from Lock() to Unlock(): [c, ok, evicted, todo]
CacheContainsOrAdd(c, k, v) ==
  IF LRUContains(c.lru, k).ok
  THEN [c |-> c, ok |-> TRUE, evicted |-> FALSE, todo |-> << >>]
  ELSE LET r  == LRUAdd(c.lru, k, v)
           c1 == AfterLRU(c, r.c)
           d  == r.evicted /\ c1.onEvict
       IN  [c |-> IF d THEN [c1 EXCEPT !.evictedKeys = << >>,
                                       !.evictedValues = << >>]
                       ELSE c1,
            ok |-> FALSE,
            evicted |-> r.evicted,
            todo |-> IF d THEN << <<c1.evictedKeys[1], c1.evictedValues[1]>> >>
                          ELSE << >>]

\* PeekOrAdd(key, value) from Lock() to Unlock(): [c, prev, ok, evicted, todo]
CachePeekOrAdd(c, k, v) ==
  LET p == LRUPeek(c.lru, k)
  IN  IF p.ok
      THEN [c |-> c, prev |-> p.value, ok |-> TRUE, evicted |-> FALSE,
            todo |-> << >>]
      ELSE LET r  == LRUAdd(c.lru, k, v)
               c1 == AfterLRU(c, r.c)
               d  == r.evicted /\ c1.onEvict
           IN  [c |-> IF d THEN [c1 EXCEPT !.evictedKeys = << >>,
                                           !.evictedValues = << >>]
                           ELSE c1,
                prev |-> p.value,
                ok |-> FALSE,
                evicted |-> r.evicted,
                todo |-> IF d THEN << <<c1.evictedKeys[1], c1.evictedValues[1]>> >>
                              ELSE << >>]

\* RemoveOldest() from Lock() to Unlock(): [c, key, value, ok, todo]
CacheRemoveOldest(c) ==
  LET r  == LRURemoveOldest(c.lru)
      c1 == AfterLRU(c, r.c)
      d  == r.ok /\ c1.onEvict
  IN  [c |-> IF d THEN [c1 EXCEPT !.evictedKeys = << >>,
                                  !.evictedValues = << >>]
                  ELSE c1,
       key |-> r.key, value |-> r.value, ok |-> r.ok,
       todo |-> IF d THEN << <<c1.evictedKeys[1], c1.evictedValues[1]>> >>
                     ELSE << >>]

CacheLen(c) == LRULen(c.lru)

CacheCap(c) == LRUCap(c.lru)

\* ------------------------------------------------------------ the calls

\* had: whether the key was in the cache when the call began
\* len0: Len() when a call of Resize began
NoOp == [op |-> "none", key |-> NoKey, val |-> NoVal, size |-> 0, had |-> FALSE,
         len0 |-> 0, ok |-> FALSE, rkey |-> NoKey, rval |-> NoVal, n |-> 0,
         cb |-> << >>]

\* A call of the Cache between its Unlock() and its return: the record of
\* the call (op) and the pairs still to hand to the user's callback.
NoCall == [pc |-> "idle", op |-> NoOp, todo |-> << >>]

\* the callers of the Cache: two goroutines (the lock orders any number of
\* callers two by two)
Threads == {"t1", "t2"}

NoThread == "none"

\* sync.RWMutex: who holds it for writing, who holds it for reading
NoLock == [w |-> NoThread, r |-> {}]

\* a caller between two calls: no call of the Cache on its stack
Idle == << >>

\* how many calls of the Cache one goroutine has on its stack at most: a call
\* and the calls its callbacks make
MaxDepth == 2

\* The call that held the lock last, when it was a ContainsOrAdd: who made
\* it, its arguments and what it returns (found, evicted).
NoCrit == [op |-> "none", by |-> NoThread, key |-> NoKey, val |-> NoVal,
           found |-> FALSE, evicted |-> FALSE]

\* no Add to remember
NoAlive == << >>

\* the goroutine of deleteExpired: not started ("off"), waiting for the ticker
\* ("idle") or in time.Sleep with the lock released ("sleep")
NoSweep == [pc |-> "off", idx |-> 0, wake |-> 0]

Init ==
  /\ kind = "none"
  /\ lru = NIL
  /\ xl = NIL
  /\ now = 0
  /\ sweep = NoSweep
  /\ fc = NIL
  /\ call = NoCall
  /\ err = FALSE
  /\ lastOp = NoOp
  /\ lock = NoLock
  /\ th = [t \in Threads |-> Idle]
  /\ ref = << >>
  /\ crit = NoCrit
  /\ trace = << >>
  /\ cbLog = << >>
  /\ alive = NoAlive

BasicNew(size, cb) ==
  /\ kind = "none"
  /\ ~err
  /\ LET r == NewLRU(size, cb)
     IN  /\ lru' = r.l
         /\ err' = r.err
         /\ kind' = IF r.nil THEN "none" ELSE "basic"
         /\ lastOp' = [NoOp EXCEPT !.op = "NewLRU", !.size = size]
  /\ UNCHANGED <<xl, now, sweep, facVars, trace, cbLog, alive>>

BasicAdd(k, v) ==
  /\ kind = "basic"
  /\ LET r == LRUAdd(lru, k, v)
     IN  /\ lru' = Fresh(r.c)
         /\ lastOp' = [NoOp EXCEPT !.op = "Add", !.key = k, !.had = lru.entries[k] # NIL, !.val = v,
                                   !.ok = r.evicted, !.cb = r.c.cb]
  /\ UNCHANGED <<kind, xl, now, sweep, facVars, err, trace, cbLog, alive>>

BasicGet(k) ==
  /\ kind = "basic"
  /\ LET r == LRUGet(lru, k)
     IN  /\ lru' = Fresh(r.c)
         /\ lastOp' = [NoOp EXCEPT !.op = "Get", !.key = k, !.had = lru.entries[k] # NIL, !.ok = r.ok,
                                   !.rval = r.value, !.cb = r.c.cb]
  /\ UNCHANGED <<kind, xl, now, sweep, facVars, err, trace, cbLog, alive>>

BasicContains(k) ==
  /\ kind = "basic"
  /\ LET r == LRUContains(lru, k)
     IN  /\ lru' = Fresh(r.c)
         /\ lastOp' = [NoOp EXCEPT !.op = "Contains", !.key = k, !.had = lru.entries[k] # NIL,
                                   !.ok = r.ok, !.cb = r.c.cb]
  /\ UNCHANGED <<kind, xl, now, sweep, facVars, err, trace, cbLog, alive>>

BasicPeek(k) ==
  /\ kind = "basic"
  /\ LET r == LRUPeek(lru, k)
     IN  /\ lru' = Fresh(r.c)
         /\ lastOp' = [NoOp EXCEPT !.op = "Peek", !.key = k, !.had = lru.entries[k] # NIL, !.ok = r.ok,
                                   !.rval = r.value, !.cb = r.c.cb]
  /\ UNCHANGED <<kind, xl, now, sweep, facVars, err, trace, cbLog, alive>>

BasicRemove(k) ==
  /\ kind = "basic"
  /\ LET r == LRURemove(lru, k)
     IN  /\ lru' = Fresh(r.c)
         /\ lastOp' = [NoOp EXCEPT !.op = "Remove", !.key = k, !.had = lru.entries[k] # NIL, !.ok = r.ok,
                                   !.cb = r.c.cb]
  /\ UNCHANGED <<kind, xl, now, sweep, facVars, err, trace, cbLog, alive>>

BasicRemoveOldest ==
  /\ kind = "basic"
  /\ LET r == LRURemoveOldest(lru)
     IN  /\ lru' = Fresh(r.c)
         /\ lastOp' = [NoOp EXCEPT !.op = "RemoveOldest", !.ok = r.ok,
                                   !.rkey = r.key, !.rval = r.value,
                                   !.cb = r.c.cb]
  /\ UNCHANGED <<kind, xl, now, sweep, facVars, err, trace, cbLog, alive>>

BasicGetOldest ==
  /\ kind = "basic"
  /\ LET r == LRUGetOldest(lru)
     IN  /\ lru' = Fresh(r.c)
         /\ lastOp' = [NoOp EXCEPT !.op = "GetOldest", !.ok = r.ok,
                                   !.rkey = r.key, !.rval = r.value,
                                   !.cb = r.c.cb]
  /\ UNCHANGED <<kind, xl, now, sweep, facVars, err, trace, cbLog, alive>>

BasicPurge ==
  /\ kind = "basic"
  /\ \E order \in RangeOrders(MapKeys(lru)) :
       LET c == LRUPurge(lru, order)
       IN  /\ lru' = Fresh(c)
           /\ lastOp' = [NoOp EXCEPT !.op = "Purge", !.cb = c.cb]
  /\ UNCHANGED <<kind, xl, now, sweep, facVars, err, trace, cbLog, alive>>

BasicResize(size) ==
  /\ kind = "basic"
  /\ LET r == LRUResize(lru, size)
     IN  /\ lru' = Fresh(r.c)
         /\ lastOp' = [NoOp EXCEPT !.op = "Resize", !.size = size,
                                   !.len0 = LRULen(lru), !.n = r.evicted,
                                   !.cb = r.c.cb]
  /\ UNCHANGED <<kind, xl, now, sweep, facVars, err, trace, cbLog, alive>>

NextBasic ==
  \/ \E size \in SizeArgs, cb \in BOOLEAN : BasicNew(size, cb)
  \/ \E k \in KeySet, v \in ValSet : BasicAdd(k, v)
  \/ \E k \in KeySet : BasicGet(k)
  \/ \E k \in KeySet : BasicContains(k)
  \/ \E k \in KeySet : BasicPeek(k)
  \/ \E k \in KeySet : BasicRemove(k)
  \/ BasicRemoveOldest
  \/ BasicGetOldest
  \/ BasicPurge
  \/ \E size \in SizeArgs : BasicResize(size)

Next == NextBasic

Spec == Init /\ [][Next]_vars

\* ---------------------------------------------- Adds of distinct keys only

\* a basic LRU of capacity C > 0 with a callback, just constructed
InitAdds ==
  /\ kind = "basic"
  /\ \E C \in 1..MaxSize : lru = NewLRU(C, TRUE).l
  /\ xl = NIL
  /\ now = 0
  /\ sweep = NoSweep
  /\ fc = NIL
  /\ call = NoCall
  /\ err = FALSE
  /\ lastOp = NoOp
  /\ lock = NoLock
  /\ th = [t \in Threads |-> Idle]
  /\ ref = << >>
  /\ crit = NoCrit
  /\ trace = << >>
  /\ cbLog = << >>
  /\ alive = NoAlive

AddDistinct(k, v) ==
  /\ \A i \in 1..Len(trace) : trace[i].key # k
  /\ LET r == LRUAdd(lru, k, v)
     IN  /\ lru' = Fresh(r.c)
         /\ lastOp' = [NoOp EXCEPT !.op = "Add", !.key = k, !.val = v,
                                   !.ok = r.evicted, !.cb = r.c.cb]
         /\ trace' = Append(trace, [key |-> k, val |-> v, evicted |-> r.evicted])
         /\ cbLog' = cbLog \o r.c.cb
  /\ UNCHANGED <<kind, xl, now, sweep, facVars, err, alive>>

NextAdds == \E k \in KeySet, v \in ValSet : AddDistinct(k, v)

SpecAdds == InitAdds /\ [][NextAdds]_vars

\* ----------------------------------------------- the thread-safe Cache

facRest == <<lru, xl, now, sweep, lock, th, ref, crit, err, trace, cbLog, alive>>

FacNew(size, cb) ==
  /\ kind = "none"
  /\ ~err
  /\ LET r == NewWithOnEvict(size, cb)
     IN  /\ fc' = r.c
         /\ err' = r.err
         /\ kind' = IF r.err THEN "none" ELSE "facade"
         /\ lastOp' = [NoOp EXCEPT !.op = "NewWithOnEvict", !.size = size]
  /\ UNCHANGED <<lru, xl, now, sweep, call, lock, th, ref, crit, trace, cbLog, alive>>

\* a call from its Lock() to its Unlock()
FacAdd(k, v) ==
  /\ kind = "facade" /\ call.pc = "idle"
  /\ LET r == CacheAdd(fc, k, v)
     IN  /\ fc' = r.c
         /\ call' = [pc |-> "unlocked", todo |-> r.todo,
                     op |-> [NoOp EXCEPT !.op = "Add", !.key = k, !.val = v,
                                         !.had = fc.lru.entries[k] # NIL,
                                         !.ok = r.evicted]]
  /\ UNCHANGED <<kind, lastOp, facRest>>

FacGet(k) ==
  /\ kind = "facade" /\ call.pc = "idle"
  /\ LET r == CacheGet(fc, k)
     IN  /\ fc' = r.c
         /\ call' = [pc |-> "unlocked", todo |-> << >>,
                     op |-> [NoOp EXCEPT !.op = "Get", !.key = k,
                                         !.had = fc.lru.entries[k] # NIL,
                                         !.ok = r.ok, !.rval = r.value]]
  /\ UNCHANGED <<kind, lastOp, facRest>>

FacRemove(k) ==
  /\ kind = "facade" /\ call.pc = "idle"
  /\ LET r == CacheRemove(fc, k)
     IN  /\ fc' = r.c
         /\ call' = [pc |-> "unlocked", todo |-> r.todo,
                     op |-> [NoOp EXCEPT !.op = "Remove", !.key = k,
                                         !.had = fc.lru.entries[k] # NIL,
                                         !.ok = r.ok]]
  /\ UNCHANGED <<kind, lastOp, facRest>>

FacPurge ==
  /\ kind = "facade" /\ call.pc = "idle"
  /\ \E order \in RangeOrders(MapKeys(fc.lru)) :
       LET r == CachePurge(fc, order)
       IN  /\ fc' = r.c
           /\ call' = [pc |-> "unlocked", todo |-> r.todo,
                       op |-> [NoOp EXCEPT !.op = "Purge",
                                           !.len0 = CacheLen(fc)]]
  /\ UNCHANGED <<kind, lastOp, facRest>>

FacResize(size) ==
  /\ kind = "facade" /\ call.pc = "idle"
  /\ LET r == CacheResize(fc, size)
     IN  /\ fc' = r.c
         /\ call' = [pc |-> "unlocked", todo |-> r.todo,
                     op |-> [NoOp EXCEPT !.op = "Resize", !.size = size,
                                         !.len0 = CacheLen(fc),
                                         !.n = r.evicted]]
  /\ UNCHANGED <<kind, lastOp, facRest>>

\* past Unlock(): c.onEvict(k, v) for the next pair the call holds
FacCallback ==
  /\ kind = "facade" /\ call.pc = "unlocked"
  /\ call.todo # << >>
  /\ call' = [call EXCEPT !.todo = Tail(@),
                          !.op.cb = Append(@, Head(call.todo))]
  /\ UNCHANGED <<kind, fc, lastOp, facRest>>

\* the call returns
FacReturn ==
  /\ kind = "facade" /\ call.pc = "unlocked"
  /\ call.todo = << >>
  /\ lastOp' = call.op
  /\ call' = NoCall
  /\ UNCHANGED <<kind, fc, facRest>>

NextFacade ==
  \/ \E size \in SizeArgs, cb \in BOOLEAN : FacNew(size, cb)
  \/ \E k \in KeySet, v \in ValSet : FacAdd(k, v)
  \/ \E k \in KeySet : FacGet(k)
  \/ \E k \in KeySet : FacRemove(k)
  \/ FacPurge
  \/ \E size \in SizeArgs : FacResize(size)
  \/ FacCallback
  \/ FacReturn

NextResize == NextBasic \/ NextFacade

\* the basic LRU or the thread-safe Cache, the calls recorded
SpecResize == Init /\ [][NextResize]_vars

\* ------------------------------------ the Cache called by several goroutines

\* sync.RWMutex
CanLock(lk) == lk.w = NoThread /\ lk.r = {}

Lock(lk, t) == [lk EXCEPT !.w = t]

Unlock(lk, t) == [lk EXCEPT !.w = NoThread]

CanRLock(lk) == lk.w = NoThread

RLock(lk, t) == [lk EXCEPT !.r = @ \cup {t}]

RUnlock(lk, t) == [lk EXCEPT !.r = @ \ {t}]

\* The frame of a call that holds the lock and has made its call of the LRU:
\* the pairs its local variables k, v or keys, values hold for the user's
\* callback (todo), and the pairs the LRU removed during the call, as the LRU
\* reported them to l.onEvict (owed). What is left of every call is the same
\* code: Unlock(), c.onEvict for the pairs held, return.
\* nest: a call made from the callback now running has returned.
Frame(todo, owed) ==
  [pc |-> "locked", todo |-> todo, owed |-> owed, nest |-> FALSE]

Top(t) == Head(th[t])

\* goroutine t may begin a call: it is between two calls, or it runs the
\* user's callback of a call and the callback calls the Cache
CanCall(t) ==
  /\ kind = "facade"
  /\ \/ th[t] = Idle
     \/ /\ th[t] # Idle
        /\ Top(t).pc = "cb"
        /\ Len(th[t]) < MaxDepth

Push(t, f) == [th EXCEPT ![t] = <<f>> \o @]

thRest == <<kind, lru, xl, now, sweep, call, err, lastOp, trace, cbLog, alive>>

\* Lock() and the call up to its Unlock()
TAdd(t, k, v) ==
  /\ CanCall(t) /\ CanLock(lock)
  /\ lock' = Lock(lock, t)
  /\ LET r == CacheAdd(fc, k, v)
     IN  /\ fc' = r.c
         /\ th' = Push(t, Frame(r.todo,
                                LRUAdd(fc.lru, k, v).c.cb))
  /\ UNCHANGED thRest

TGet(t, k) ==
  /\ CanCall(t) /\ CanLock(lock)
  /\ lock' = Lock(lock, t)
  /\ LET r == CacheGet(fc, k)
     IN  /\ fc' = r.c
         /\ th' = Push(t, Frame(<< >>,
                                LRUGet(fc.lru, k).c.cb))
  /\ UNCHANGED thRest

TContainsOrAdd(t, k, v) ==
  /\ CanCall(t) /\ CanLock(lock)
  /\ lock' = Lock(lock, t)
  /\ LET r == CacheContainsOrAdd(fc, k, v)
     IN  /\ fc' = r.c
         /\ th' = Push(t, Frame(r.todo,
                                IF r.ok THEN << >>
                                ELSE LRUAdd(fc.lru, k, v).c.cb))
  /\ UNCHANGED thRest

TPeekOrAdd(t, k, v) ==
  /\ CanCall(t) /\ CanLock(lock)
  /\ lock' = Lock(lock, t)
  /\ LET r == CachePeekOrAdd(fc, k, v)
     IN  /\ fc' = r.c
         /\ th' = Push(t, Frame(r.todo,
                                IF r.ok THEN << >>
                                ELSE LRUAdd(fc.lru, k, v).c.cb))
  /\ UNCHANGED thRest

TRemove(t, k) ==
  /\ CanCall(t) /\ CanLock(lock)
  /\ lock' = Lock(lock, t)
  /\ LET r == CacheRemove(fc, k)
     IN  /\ fc' = r.c
         /\ th' = Push(t, Frame(r.todo,
                                LRURemove(fc.lru, k).c.cb))
  /\ UNCHANGED thRest

TRemoveOldest(t) ==
  /\ CanCall(t) /\ CanLock(lock)
  /\ lock' = Lock(lock, t)
  /\ LET r == CacheRemoveOldest(fc)
     IN  /\ fc' = r.c
         /\ th' = Push(t, Frame(r.todo, LRURemoveOldest(fc.lru).c.cb))
  /\ UNCHANGED thRest

TPurge(t) ==
  /\ CanCall(t) /\ CanLock(lock)
  /\ lock' = Lock(lock, t)
  /\ \E order \in RangeOrders(MapKeys(fc.lru)) :
       LET r == CachePurge(fc, order)
       IN  /\ fc' = r.c
           /\ th' = Push(t, Frame(r.todo,
                                  LRUPurge(fc.lru, order).cb))
  /\ UNCHANGED thRest

TResize(t, size) ==
  /\ CanCall(t) /\ CanLock(lock)
  /\ lock' = Lock(lock, t)
  /\ LET r == CacheResize(fc, size)
     IN  /\ fc' = r.c
         /\ th' = Push(t, Frame(r.todo,
                                LRUResize(fc.lru, size).c.cb))
  /\ UNCHANGED thRest

\* RLock() and the call up to its RUnlock()
TContains(t, k) ==
  /\ CanCall(t) /\ CanRLock(lock)
  /\ lock' = RLock(lock, t)
  /\ th' = Push(t, [Frame(<< >>, << >>)
                      EXCEPT !.pc = "rlocked"])
  /\ UNCHANGED <<fc, thRest>>

TPeek(t, k) ==
  /\ CanCall(t) /\ CanRLock(lock)
  /\ lock' = RLock(lock, t)
  /\ LET r == CachePeek(fc, k)
     IN  th' = Push(t, [Frame(<< >>, << >>)
                          EXCEPT !.pc = "rlocked"])
  /\ UNCHANGED <<fc, thRest>>

TLen(t) ==
  /\ CanCall(t) /\ CanRLock(lock)
  /\ lock' = RLock(lock, t)
  /\ th' = Push(t, [Frame(<< >>, << >>)
                      EXCEPT !.pc = "rlocked"])
  /\ UNCHANGED <<fc, thRest>>

\* a call that goes on to its callbacks with the lock still held
TUnlockLate(t) ==
  /\ th[t] # Idle
  /\ Top(t).pc = "locked"
  /\ lock' = IF Top(t).todo = << >> THEN Unlock(lock, t) ELSE lock
  /\ th' = [th EXCEPT ![t][1].pc = "unlocked"]
  /\ UNCHANGED <<fc, thRest>>

\* c.lock.Unlock()
TUnlock(t) ==
  /\ th[t] # Idle
  /\ Top(t).pc = "locked"
  /\ lock' = Unlock(lock, t)
  /\ th' = [th EXCEPT ![t][1].pc = "unlocked"]
  /\ UNCHANGED <<fc, thRest>>

\* c.lock.RUnlock()
TRUnlock(t) ==
  /\ th[t] # Idle
  /\ Top(t).pc = "rlocked"
  /\ lock' = RUnlock(lock, t)
  /\ th' = [th EXCEPT ![t][1].pc = "unlocked"]
  /\ UNCHANGED <<fc, thRest>>

\* c.onEvict(k, v) is called with the next pair the call holds
TCallback(t) ==
  /\ th[t] # Idle
  /\ Top(t).pc = "unlocked"
  /\ Top(t).todo # << >>
  /\ th' = [th EXCEPT ![t][1].pc = "cb"]
  /\ UNCHANGED <<fc, lock, thRest>>

\* c.onEvict(k, v) returns
TCallbackDone(t) ==
  /\ th[t] # Idle
  /\ Top(t).pc = "cb"
  /\ th' = [th EXCEPT ![t][1].pc = "unlocked",
                      ![t][1].todo = Tail(@),
                      ![t][1].nest = FALSE]
  /\ UNCHANGED <<fc, lock, thRest>>

\* the call returns, to its caller or into the callback that made it
TReturn(t) ==
  /\ th[t] # Idle
  /\ Top(t).pc = "unlocked"
  /\ Top(t).todo = << >>
  /\ th' = [th EXCEPT ![t] = IF Len(@) > 1
                             THEN <<[@[2] EXCEPT !.nest = TRUE]>> \o Tail(Tail(@))
                             ELSE Tail(@)]
  /\ UNCHANGED <<fc, lock, thRest>>

\* the steps every call that took Lock() ends with
TFinish(t) ==
  \/ TUnlock(t)
  \/ TCallback(t)
  \/ TCallbackDone(t)
  \/ TReturn(t)

\* NewWithOnEvict with a size the constructor accepts
TNew(size, cb) == size > 0 /\ FacNew(size, cb)

\* the Cache called by the goroutines; no callback calls the Cache
NextThreads ==
  \/ \E size \in 1..MaxXKey, cb \in BOOLEAN : TNew(size, cb)
  \/ \E t \in Threads :
       \/ /\ th[t] = Idle
          /\ UNCHANGED <<ref, crit>>
          /\ \/ \E k \in XKeySet : TAdd(t, k, AVal)
             \/ \E k \in XKeySet : TGet(t, k)
             \/ \E k \in XKeySet : TContainsOrAdd(t, k, AVal)
             \/ \E k \in XKeySet : TPeekOrAdd(t, k, AVal)
             \/ \E k \in XKeySet : TRemove(t, k)
             \/ TRemoveOldest(t)
             \/ TPurge(t)
             \/ \E size \in XSizeArgs : TResize(t, size)
             \/ \E k \in XKeySet : TContains(t, k)
             \/ \E k \in XKeySet : TPeek(t, k)
             \/ TLen(t)
       \/ TFinish(t) /\ UNCHANGED <<ref, crit>>
       \/ TRUnlock(t) /\ UNCHANGED <<ref, crit>>

SpecThreads == Init /\ [][NextThreads]_vars

\* the Cache with a user's callback that calls the Cache: a goroutine calls
\* when it is between two calls or inside the callback of one
NextReentrant ==
  \/ \E size \in 1..MaxXKey : TNew(size, TRUE)
  \/ \E t \in Threads :
       /\ UNCHANGED <<ref, crit>>
       /\ \/ \E k \in XKeySet : TAdd(t, k, AVal)
          \/ \E k \in XKeySet : TRemove(t, k)
          \/ \E size \in XSizeArgs : TResize(t, size)
          \/ TFinish(t)

SpecReentrant == Init /\ [][NextReentrant]_vars

\* The single-threaded reference: the pairs of an LRU of capacity cap, oldest
\* first, after the same call.
RefHas(r, k) == \E i \in 1..Len(r) : r[i][1] = k

RefDrop(r, k) == LET keep(x) == x[1] # k IN SelectSeq(r, keep)

RefValue(r, k) == LET i == CHOOSE i \in 1..Len(r) : r[i][1] = k IN r[i][2]

RefAdd(r, cap, k, v) ==
  IF RefHas(r, k) THEN Append(RefDrop(r, k), <<k, v>>)
  ELSE IF Len(r) + 1 > cap THEN Tail(Append(r, <<k, v>>))
  ELSE Append(r, <<k, v>>)

RefGet(r, k) ==
  IF RefHas(r, k) THEN Append(RefDrop(r, k), <<k, RefValue(r, k)>>) ELSE r

RefRemove(r, k) == RefDrop(r, k)

\* the calls of the goroutines, each applied to the reference when it takes
\* the lock
SerialAdd(t, k, v) ==
  /\ TAdd(t, k, v)
  /\ ref' = RefAdd(ref, CacheCap(fc), k, v)
  /\ UNCHANGED crit

SerialGet(t, k) ==
  /\ TGet(t, k)
  /\ ref' = RefGet(ref, k)
  /\ UNCHANGED crit

SerialRemove(t, k) ==
  /\ TRemove(t, k)
  /\ ref' = RefRemove(ref, k)
  /\ UNCHANGED crit

\* goroutines that call Add, Get and Remove, one call after the other each
NextSerial ==
  \/ \E size \in 1..MaxXKey, cb \in BOOLEAN : TNew(size, cb)
  \/ \E t \in Threads :
       \/ /\ th[t] = Idle
          /\ \/ \E k \in XKeySet, v \in ValSet : SerialAdd(t, k, v)
             \/ \E k \in XKeySet : SerialGet(t, k)
             \/ \E k \in XKeySet : SerialRemove(t, k)
       \/ TFinish(t) /\ UNCHANGED <<ref, crit>>

SpecSerial == Init /\ [][NextSerial]_vars

\* ContainsOrAdd, remembered as the call that held the lock last
RaceContainsOrAdd(t, k, v) ==
  /\ TContainsOrAdd(t, k, v)
  /\ LET r == CacheContainsOrAdd(fc, k, v)
     IN  crit' = [op |-> "ContainsOrAdd", by |-> t, key |-> k, val |-> v,
                  found |-> r.ok, evicted |-> r.evicted]
  /\ UNCHANGED ref

\* the goroutines call ContainsOrAdd among other calls of the Cache
NextRace ==
  \/ \E size \in 1..MaxXKey, cb \in BOOLEAN : TNew(size, cb)
  \/ \E t \in Threads :
       \/ /\ th[t] = Idle
          /\ \E k \in XKeySet, v \in ValSet : RaceContainsOrAdd(t, k, v)
       \/ /\ th[t] = Idle
          /\ crit' = NoCrit
          /\ UNCHANGED ref
          /\ \/ \E k \in XKeySet, v \in ValSet : TAdd(t, k, v)
             \/ \E k \in XKeySet : TGet(t, k)
             \/ \E k \in XKeySet : TRemove(t, k)
             \/ \E size \in XSizeArgs : TResize(t, size)
       \/ TFinish(t) /\ UNCHANGED <<ref, crit>>

SpecRace == Init /\ [][NextRace]_vars

\* ------------------------------------- the two caches, their calls unrecorded

obsVars == <<lastOp, trace, cbLog, alive>>

QNew(size, cb) ==
  /\ kind = "none"
  /\ ~err
  /\ LET r == NewLRU(size, cb)
     IN  /\ lru' = r.l
         /\ err' = r.err
         /\ kind' = IF r.nil THEN "none" ELSE "basic"
  /\ UNCHANGED <<xl, now, sweep, facVars, obsVars>>

QAdd(k, v) ==
  /\ kind = "basic"
  /\ lru' = Fresh(LRUAdd(lru, k, v).c)
  /\ UNCHANGED <<kind, xl, now, sweep, facVars, err, obsVars>>

QGet(k) ==
  /\ kind = "basic"
  /\ lru' = Fresh(LRUGet(lru, k).c)
  /\ UNCHANGED <<kind, xl, now, sweep, facVars, err, obsVars>>

QPeek(k) ==
  /\ kind = "basic"
  /\ lru' = Fresh(LRUPeek(lru, k).c)
  /\ UNCHANGED <<kind, xl, now, sweep, facVars, err, obsVars>>

QContains(k) ==
  /\ kind = "basic"
  /\ lru' = Fresh(LRUContains(lru, k).c)
  /\ UNCHANGED <<kind, xl, now, sweep, facVars, err, obsVars>>

QRemove(k) ==
  /\ kind = "basic"
  /\ lru' = Fresh(LRURemove(lru, k).c)
  /\ UNCHANGED <<kind, xl, now, sweep, facVars, err, obsVars>>

QRemoveOldest ==
  /\ kind = "basic"
  /\ lru' = Fresh(LRURemoveOldest(lru).c)
  /\ UNCHANGED <<kind, xl, now, sweep, facVars, err, obsVars>>

QPurge ==
  /\ kind = "basic"
  /\ \E order \in RangeOrders(MapKeys(lru)) : lru' = Fresh(LRUPurge(lru, order))
  /\ UNCHANGED <<kind, xl, now, sweep, facVars, err, obsVars>>

QResize(size) ==
  /\ kind = "basic"
  /\ lru' = Fresh(LRUResize(lru, size).c)
  /\ UNCHANGED <<kind, xl, now, sweep, facVars, err, obsVars>>

ExpNew(size, cb, ttl) ==
  /\ kind = "none"
  /\ ~err
  /\ LET r == XNewLRU(size, cb, ttl)
     IN  /\ xl' = r.l
         /\ sweep' = IF r.sweeping THEN [NoSweep EXCEPT !.pc = "idle"]
                                   ELSE NoSweep
  /\ kind' = "exp"
  /\ UNCHANGED <<lru, now, facVars, err, obsVars>>

expRest == <<lru, now, sweep, facVars, err, trace, cbLog>>

\* the calls of the expirable cache hold l.lock from their first statement to
\* their return: each is one step; what an earlier call returned is forgotten
ExpAdd(k, v) ==
  /\ kind = "exp"
  /\ xl' = Fresh(XAdd(xl, k, v, now).c)
  /\ lastOp' = NoOp
  /\ UNCHANGED <<kind, expRest, alive>>

ExpGet(k) ==
  /\ kind = "exp"
  /\ xl' = Fresh(XGet(xl, k, now).c)
  /\ lastOp' = NoOp
  /\ UNCHANGED <<kind, expRest, alive>>

ExpPeek(k) ==
  /\ kind = "exp"
  /\ xl' = Fresh(XPeek(xl, k, now).c)
  /\ lastOp' = NoOp
  /\ UNCHANGED <<kind, expRest, alive>>

ExpContains(k) ==
  /\ kind = "exp"
  /\ xl' = Fresh(XContains(xl, k).c)
  /\ lastOp' = NoOp
  /\ UNCHANGED <<kind, expRest, alive>>

ExpRemove(k) ==
  /\ kind = "exp"
  /\ xl' = Fresh(XRemove(xl, k).c)
  /\ lastOp' = NoOp
  /\ UNCHANGED <<kind, expRest, alive>>

ExpRemoveOldest ==
  /\ kind = "exp"
  /\ xl' = Fresh(XRemoveOldest(xl).c)
  /\ lastOp' = NoOp
  /\ UNCHANGED <<kind, expRest, alive>>

ExpPurge ==
  /\ kind = "exp"
  /\ \E order \in RangeOrders(MapKeys(xl)) : xl' = Fresh(XPurge(xl, order))
  /\ lastOp' = NoOp
  /\ UNCHANGED <<kind, expRest, alive>>

ExpResize(size) ==
  /\ kind = "exp"
  /\ xl' = Fresh(XResize(xl, size).c)
  /\ lastOp' = NoOp
  /\ UNCHANGED <<kind, expRest, alive>>

\* the clock moves on (what the last call returned is forgotten)
ExpTick ==
  /\ kind = "exp"
  /\ now < MaxTime
  /\ now' = now + 1
  /\ lastOp' = NoOp
  /\ UNCHANGED <<kind, lru, xl, sweep, facVars, err, trace, cbLog, alive>>

\* the ticker fired and deleteExpired runs to its first Unlock(): either it
\* goes to sleep with the lock released, or it sweeps the bucket at once
ExpSweepStart ==
  /\ kind = "exp"
  /\ sweep.pc = "idle"
  /\ xl.nextBucket < MaxSweeps
  /\ LET bucketIndex == xl.nextBucket
         d           == timeToExpire(xl, bucketIndex, now)
     IN  IF d > 0
         THEN /\ sweep' = [pc |-> "sleep", idx |-> bucketIndex,
                           wake |-> now + d]
              /\ xl' = xl
         ELSE /\ \E order \in RangeOrders(xl.bent[bucketIndex]) :
                   xl' = Fresh(deleteExpiredSweep(xl, bucketIndex, order))
              /\ sweep' = sweep
  /\ lastOp' = NoOp
  /\ UNCHANGED <<kind, lru, now, facVars, err, trace, cbLog, alive>>

\* time.Sleep(timeToExpire) returned: deleteExpired from its second Lock() on
ExpSweepWake ==
  /\ kind = "exp"
  /\ sweep.pc = "sleep"
  /\ now >= sweep.wake
  /\ \E order \in RangeOrders(xl.bent[sweep.idx]) :
       xl' = Fresh(deleteExpiredSweep(xl, sweep.idx, order))
  /\ sweep' = [NoSweep EXCEPT !.pc = "idle"]
  /\ lastOp' = NoOp
  /\ UNCHANGED <<kind, lru, now, facVars, err, trace, cbLog, alive>>

NextQuiet ==
  \/ \E size \in SizeArgs, cb \in BOOLEAN : QNew(size, cb)
  \/ \E k \in KeySet, v \in ValSet : QAdd(k, v)
  \/ \E k \in KeySet : QGet(k)
  \/ \E k \in KeySet : QPeek(k)
  \/ \E k \in KeySet : QContains(k)
  \/ \E k \in KeySet : QRemove(k)
  \/ QRemoveOldest
  \/ QPurge
  \/ \E size \in SizeArgs : QResize(size)

NextExp ==
  \/ \E size \in XSizeArgs, cb \in BOOLEAN, ttl \in TtlArgs : ExpNew(size, cb, ttl)
  \/ \E k \in XKeySet : ExpAdd(k, AVal)
  \/ \E k \in XKeySet : ExpGet(k)
  \/ \E k \in XKeySet : ExpPeek(k)
  \/ \E k \in XKeySet : ExpContains(k)
  \/ \E k \in XKeySet : ExpRemove(k)
  \/ ExpRemoveOldest
  \/ ExpPurge
  \/ \E size \in XSizeArgs : ExpResize(size)
  \/ ExpTick
  \/ ExpSweepStart
  \/ ExpSweepWake

NextCaches == NextQuiet \/ NextExp

SpecCaches == Init /\ [][NextCaches]_vars

\* ------------------------------------ the expirable LRU, the calls recorded

\* no Add of the key stands: none was made, or a caller has undone it
Gone == [on |-> FALSE, v |-> NoVal, t |-> 0]

\* What the callers know after a call that took the cache from c to c2: a key
\* the call took out of the index is gone.  The sweep is no caller.
Undone(al, c, c2) ==
  IF al = NoAlive THEN al
  ELSE [k \in XKeySet |-> IF c.entries[k] # NIL /\ c2.entries[k] = NIL
                          THEN Gone ELSE al[k]]

ObsNew(size, cb, ttl) ==
  /\ kind = "none"
  /\ ~err
  /\ LET r == XNewLRU(size, cb, ttl)
     IN  /\ xl' = r.l
         /\ sweep' = IF r.sweeping THEN [NoSweep EXCEPT !.pc = "idle"]
                                   ELSE NoSweep
  /\ kind' = "exp"
  /\ lastOp' = [NoOp EXCEPT !.op = "NewLRU", !.size = size, !.n = ttl]
  /\ alive' = [k \in XKeySet |-> Gone]
  /\ UNCHANGED <<lru, now, facVars, err, trace, cbLog>>

ObsAdd(k, v) ==
  /\ kind = "exp"
  /\ LET r == XAdd(xl, k, v, now)
     IN  /\ xl' = Fresh(r.c)
         /\ lastOp' = [NoOp EXCEPT !.op = "Add", !.key = k, !.val = v,
                                   !.had = xl.entries[k] # NIL,
                                   !.len0 = XLen(xl),
                                   !.ok = r.evicted, !.cb = r.c.cb]
         /\ alive' = [Undone(alive, xl, r.c) EXCEPT
                        ![k] = IF r.c.entries[k] # NIL
                               THEN [on |-> TRUE, v |-> v, t |-> now]
                               ELSE Gone]
  /\ UNCHANGED <<kind, expRest>>

ObsGet(k) ==
  /\ kind = "exp"
  /\ LET r == XGet(xl, k, now)
     IN  /\ xl' = Fresh(r.c)
         /\ lastOp' = [NoOp EXCEPT !.op = "Get", !.key = k,
                                   !.had = xl.entries[k] # NIL,
                                   !.ok = r.ok, !.rval = r.value,
                                   !.cb = r.c.cb]
         /\ alive' = Undone(alive, xl, r.c)
  /\ UNCHANGED <<kind, expRest>>

ObsPeek(k) ==
  /\ kind = "exp"
  /\ LET r == XPeek(xl, k, now)
     IN  /\ xl' = Fresh(r.c)
         /\ lastOp' = [NoOp EXCEPT !.op = "Peek", !.key = k,
                                   !.had = xl.entries[k] # NIL,
                                   !.ok = r.ok, !.rval = r.value,
                                   !.cb = r.c.cb]
         /\ alive' = Undone(alive, xl, r.c)
  /\ UNCHANGED <<kind, expRest>>

ObsContains(k) ==
  /\ kind = "exp"
  /\ LET r == XContains(xl, k)
     IN  /\ xl' = Fresh(r.c)
         /\ lastOp' = [NoOp EXCEPT !.op = "Contains", !.key = k,
                                   !.had = xl.entries[k] # NIL,
                                   !.ok = r.ok, !.cb = r.c.cb]
         /\ alive' = Undone(alive, xl, r.c)
  /\ UNCHANGED <<kind, expRest>>

ObsRemove(k) ==
  /\ kind = "exp"
  /\ LET r == XRemove(xl, k)
     IN  /\ xl' = Fresh(r.c)
         /\ lastOp' = [NoOp EXCEPT !.op = "Remove", !.key = k,
                                   !.had = xl.entries[k] # NIL,
                                   !.ok = r.ok, !.cb = r.c.cb]
         /\ alive' = Undone(alive, xl, r.c)
  /\ UNCHANGED <<kind, expRest>>

ObsRemoveOldest ==
  /\ kind = "exp"
  /\ LET r == XRemoveOldest(xl)
     IN  /\ xl' = Fresh(r.c)
         /\ lastOp' = [NoOp EXCEPT !.op = "RemoveOldest", !.ok = r.ok,
                                   !.rkey = r.key, !.rval = r.value,
                                   !.cb = r.c.cb]
         /\ alive' = Undone(alive, xl, r.c)
  /\ UNCHANGED <<kind, expRest>>

ObsPurge ==
  /\ kind = "exp"
  /\ \E order \in RangeOrders(MapKeys(xl)) :
       LET c == XPurge(xl, order)
       IN  /\ xl' = Fresh(c)
           /\ lastOp' = [NoOp EXCEPT !.op = "Purge", !.len0 = XLen(xl),
                                     !.cb = c.cb]
           /\ alive' = Undone(alive, xl, c)
  /\ UNCHANGED <<kind, expRest>>

ObsResize(size) ==
  /\ kind = "exp"
  /\ LET r == XResize(xl, size)
     IN  /\ xl' = Fresh(r.c)
         /\ lastOp' = [NoOp EXCEPT !.op = "Resize", !.size = size,
                                   !.len0 = XLen(xl), !.n = r.evicted,
                                   !.cb = r.c.cb]
         /\ alive' = Undone(alive, xl, r.c)
  /\ UNCHANGED <<kind, expRest>>

NextObs ==
  \/ \E size \in XSizeArgs, cb \in BOOLEAN, ttl \in TtlArgs : ObsNew(size, cb, ttl)
  \/ \E k \in XKeySet, v \in ValSet : ObsAdd(k, v)
  \/ \E k \in XKeySet : ObsGet(k)
  \/ \E k \in XKeySet : ObsPeek(k)
  \/ \E k \in XKeySet : ObsContains(k)
  \/ \E k \in XKeySet : ObsRemove(k)
  \/ ObsRemoveOldest
  \/ ObsPurge
  \/ \E size \in XSizeArgs : ObsResize(size)
  \/ ExpTick
  \/ ExpSweepStart
  \/ ExpSweepWake

\* the expirable LRU, its callers, the clock and the sweep
SpecExp == Init /\ [][NextObs]_vars

\* the entry of key k is in the index and the clock is past its ExpiresAt
Stale(c, k, t) == c.entries[k] # NIL /\ t > c.exp[c.entries[k]]

\* a caller's Get of a key whose entry is stale, what it returns recorded
StaleGet(k) ==
  /\ kind = "exp"
  /\ Stale(xl, k, now)
  /\ ObsGet(k)

StalePeek(k) ==
  /\ kind = "exp"
  /\ Stale(xl, k, now)
  /\ ObsPeek(k)

\* the constructors of the Cache and of the expirable LRU, and what the
\* caches they return do with Add and Remove
NextNew ==
  \/ \E size \in SizeArgs, cb \in BOOLEAN : FacNew(size, cb)
  \/ \E k \in XKeySet : FacAdd(k, AVal)
  \/ FacCallback
  \/ FacReturn
  \/ \E size \in XSizeArgs, cb \in BOOLEAN, ttl \in TtlArgs : ObsNew(size, cb, ttl)
  \/ \E k \in XKeySet : ObsAdd(k, AVal)
  \/ \E k \in XKeySet : ObsRemove(k)
  \/ ExpTick

SpecNew == Init /\ [][NextNew]_vars

\* deleteExpired running through, or running to its Sleep, what a finished
\* run did recorded: the bucket it took (n), Len() before (len0), the
\* callbacks it made (cb)
SweepStart ==
  /\ kind = "exp"
  /\ sweep.pc = "idle"
  /\ LET bucketIndex == xl.nextBucket
         d           == timeToExpire(xl, bucketIndex, now)
     IN  IF d > 0
         THEN /\ sweep' = [pc |-> "sleep", idx |-> bucketIndex,
                           wake |-> now + d]
              /\ xl' = xl
              /\ lastOp' = NoOp
         ELSE /\ \E order \in RangeOrders(xl.bent[bucketIndex]) :
                   LET c == deleteExpiredSweep(xl, bucketIndex, order)
                   IN  /\ xl' = Fresh(c)
                       /\ lastOp' = [NoOp EXCEPT !.op = "deleteExpired",
                                                 !.n = bucketIndex,
                                                 !.len0 = XLen(xl),
                                                 !.cb = c.cb]
              /\ sweep' = sweep
  /\ UNCHANGED <<kind, lru, now, facVars, err, trace, cbLog, alive>>

\* time.Sleep(timeToExpire) returned: deleteExpired from its second Lock() on
SweepWake ==
  /\ kind = "exp"
  /\ sweep.pc = "sleep"
  /\ now >= sweep.wake
  /\ \E order \in RangeOrders(xl.bent[sweep.idx]) :
       LET c == deleteExpiredSweep(xl, sweep.idx, order)
       IN  /\ xl' = Fresh(c)
           /\ lastOp' = [NoOp EXCEPT !.op = "deleteExpired",
                                     !.n = sweep.idx,
                                     !.len0 = XLen(xl),
                                     !.cb = c.cb]
  /\ sweep' = [NoSweep EXCEPT !.pc = "idle"]
  /\ UNCHANGED <<kind, lru, now, facVars, err, trace, cbLog, alive>>

\* the callers call while the cursor of the sweep is on the first or on the
\* last bucket
CallerWindow == kind = "exp" /\ xl.nextBucket \in {0, numBuckets - 1}

\* the expirable LRU, without a limit of entries or with room for one, and the
\* sweep going round all its buckets
NextSweep ==
  \/ \E size \in 0..1, cb \in BOOLEAN, ttl \in TtlArgs : ExpNew(size, cb, ttl)
  \/ /\ CallerWindow
     /\ \/ \E k \in XKeySet : ExpAdd(k, AVal)
        \/ \E k \in XKeySet : ExpGet(k)
        \/ \E k \in XKeySet : ExpRemove(k)
        \/ ExpPurge
  \/ ExpTick
  \/ SweepStart
  \/ SweepWake

SpecSweep == Init /\ [][NextSweep]_vars

\* The clock under a fair schedule of the ticker and of deleteExpired. The
\* ticker fires every ttl / numBuckets, many times in one tick of this clock:
\* the clock ticks when deleteExpired sleeps with time left to sleep, or has
\* run through since the last call and the last tick.
FairTick ==
  /\ kind = "exp"
  /\ now < MaxFairTime
  /\ \/ lastOp.op = "deleteExpired"
     \/ sweep.pc = "sleep" /\ now < sweep.wake
  /\ now' = now + 1
  /\ lastOp' = NoOp
  /\ UNCHANGED <<kind, lru, xl, sweep, facVars, err, trace, cbLog, alive>>

\* the expirable LRU with a finite ttl, its callers, and the sweep and the
\* clock scheduled fairly
NextFair ==
  \/ \E cb \in BOOLEAN, ttl \in 1..MaxTtl : ExpNew(0, cb, ttl)
  \/ /\ CallerWindow
     /\ \/ \E k \in XKeySet : ExpAdd(k, AVal)
        \/ \E k \in XKeySet : ExpGet(k)
        \/ \E k \in XKeySet : ExpRemove(k)
        \/ ExpPurge
  \/ FairTick
  \/ SweepStart
  \/ SweepWake

SpecFair == Init /\ [][NextFair]_vars

\* The calls of the Cache with the inside of their critical section written
\* out: Lock() and the call of the LRU, whose callback c.onEvictCB fills the
\* eviction buffers; then the statement that takes the pairs out of the
\* buffers into the call's local variables; then Unlock(), the user's
\* callbacks and the return. The pc of a call between the two is the way it
\* takes the pairs.
Takes == {"take1", "takeAll", "takeAny", "take0"}

\* a call that takes the first pair and leaves the buffers as they are
HandOffKeeps(c, take) ==
  IF take = "take1"
  THEN [c |-> c,
        todo |-> << <<c.evictedKeys[1], c.evictedValues[1]>> >>]
  ELSE IF take = "takeAll" \/ (take = "takeAny" /\ Len(c.evictedKeys) > 0)
  THEN [c |-> initEvictBuffers(c),
        todo |-> Pending(c, c.evictedKeys, c.evictedValues)]
  ELSE [c |-> c, todo |-> << >>]

\* "take1": k, v = c.evictedKeys[0], c.evictedValues[0] and both slices cut
\* to [:0]; "takeAll": keys, values = the buffers and initEvictBuffers();
\* "takeAny": the same if len(c.evictedKeys) > 0; "take0": nothing
HandOff(c, take) ==
  IF take = "take1"
  THEN [c |-> [c EXCEPT !.evictedKeys = << >>, !.evictedValues = << >>],
        todo |-> << <<c.evictedKeys[1], c.evictedValues[1]>> >>]
  ELSE IF take = "takeAll" \/ (take = "takeAny" /\ Len(c.evictedKeys) > 0)
  THEN [c |-> initEvictBuffers(c),
        todo |-> Pending(c, c.evictedKeys, c.evictedValues)]
  ELSE [c |-> c, todo |-> << >>]

\* c.lock.Lock() and the call of the LRU that leaves it as l
BCall(t, l, take) ==
  /\ kind = "facade"
  /\ th[t] = Idle
  /\ CanLock(lock)
  /\ lock' = Lock(lock, t)
  /\ fc' = AfterLRU(fc, l)
  /\ th' = Push(t, [Frame(<< >>, l.cb) EXCEPT !.pc = take])
  /\ UNCHANGED thRest

\* if evicted && c.onEvict != nil, if ok && c.onEvict != nil
Take1(flag) == IF flag /\ fc.onEvict THEN "take1" ELSE "take0"

BAdd(t, k, v) ==
  LET r == LRUAdd(fc.lru, k, v) IN BCall(t, r.c, Take1(r.evicted))

BGet(t, k) == BCall(t, LRUGet(fc.lru, k).c, "take0")

BContainsOrAdd(t, k, v) ==
  IF LRUContains(fc.lru, k).ok
  THEN BCall(t, fc.lru, "take0")
  ELSE BAdd(t, k, v)

BPeekOrAdd(t, k, v) ==
  IF LRUPeek(fc.lru, k).ok
  THEN BCall(t, fc.lru, "take0")
  ELSE BAdd(t, k, v)

BRemove(t, k) ==
  LET r == LRURemove(fc.lru, k) IN BCall(t, r.c, Take1(r.ok))

BRemoveOldest(t) ==
  LET r == LRURemoveOldest(fc.lru) IN BCall(t, r.c, Take1(r.ok))

BPurge(t) ==
  \E order \in RangeOrders(MapKeys(fc.lru)) :
    BCall(t, LRUPurge(fc.lru, order),
          IF fc.onEvict THEN "takeAny" ELSE "take0")

BResize(t, size) ==
  LET r == LRUResize(fc.lru, size)
  IN  BCall(t, r.c, IF r.evicted > 0 /\ fc.onEvict THEN "takeAll"
                    ELSE "take0")

\* the pairs go from the buffers into the local variables of the call
BHandOff(t) ==
  /\ kind = "facade"
  /\ th[t] # Idle
  /\ Top(t).pc \in Takes
  /\ lock.w = t
  /\ LET r == HandOff(fc, Top(t).pc)
     IN  /\ fc' = r.c
         /\ th' = [th EXCEPT ![t][1].pc = "locked", ![t][1].todo = r.todo]
  /\ UNCHANGED <<lock, thRest>>

NextBuffers ==
  \/ \E size \in 1..MaxXKey, cb \in BOOLEAN : TNew(size, cb)
  \/ \E t \in Threads :
       \/ /\ kind = "facade"
          /\ th[t] = Idle
          /\ UNCHANGED <<ref, crit>>
          /\ \/ \E k \in XKeySet : BAdd(t, k, AVal)
             \/ \E k \in XKeySet : BGet(t, k)
             \/ \E k \in XKeySet : BContainsOrAdd(t, k, AVal)
             \/ \E k \in XKeySet : BPeekOrAdd(t, k, AVal)
             \/ \E k \in XKeySet : BRemove(t, k)
             \/ BRemoveOldest(t)
             \/ BPurge(t)
             \/ \E size \in XSizeArgs : BResize(t, size)
             \/ \E k \in XKeySet : TContains(t, k)
       \/ BHandOff(t) /\ UNCHANGED <<ref, crit>>
       \/ TFinish(t) /\ UNCHANGED <<ref, crit>>
       \/ TRUnlock(t) /\ UNCHANGED <<ref, crit>>

SpecBuffers == Init /\ [][NextBuffers]_vars

\* The expirable cache with its mutex l.lock written out. A caller's call is
\* two steps, Lock() and the rest of the call up to the deferred Unlock();
\* deleteExpired is Lock(), the look at the bucket at the cursor, and either
\* the removals with Unlock() or Unlock(), Sleep, Lock(), the removals and
\* Unlock(). lock.w is the holder, th[t] the position of caller t, sweep.pc
\* that of deleteExpired, crit the last access made under the lock.
SweepTask == "sweep"

lockRest == <<kind, lru, now, fc, call, ref, err, lastOp, trace, cbLog, alive>>

\* l.lock.Lock() of a caller
LLock(t) ==
  /\ kind = "exp"
  /\ th[t] = Idle
  /\ CanLock(lock)
  /\ lock' = Lock(lock, t)
  /\ th' = [th EXCEPT ![t] = <<Frame(<< >>, << >>)>>]
  /\ crit' = NoCrit
  /\ UNCHANGED <<xl, sweep, lockRest>>

\* the call of caller t after its Lock(), the deferred Unlock() included
LBody(t, op, k, c) ==
  /\ kind = "exp"
  /\ th[t] # Idle
  /\ lock.w = t
  /\ xl' = Fresh(c)
  /\ lock' = Unlock(lock, t)
  /\ th' = [th EXCEPT ![t] = Idle]
  /\ crit' = [NoCrit EXCEPT !.op = op, !.by = t, !.key = k]
  /\ UNCHANGED <<sweep, lockRest>>

LAdd(t, k, v) == LBody(t, "Add", k, XAdd(xl, k, v, now).c)

LGet(t, k) == LBody(t, "Get", k, XGet(xl, k, now).c)

LRemove(t, k) == LBody(t, "Remove", k, XRemove(xl, k).c)

\* Cap() returns l.size and takes no lock
LCap(t) ==
  /\ kind = "exp"
  /\ th[t] = Idle
  /\ crit' = [NoCrit EXCEPT !.op = "Cap", !.by = t]
  /\ UNCHANGED <<xl, lock, th, sweep, lockRest>>

\* the first l.lock.Lock() of deleteExpired
LSweepLock ==
  /\ kind = "exp"
  /\ sweep.pc = "idle"
  /\ CanLock(lock)
  /\ lock' = Lock(lock, SweepTask)
  /\ sweep' = [sweep EXCEPT !.pc = "locked"]
  /\ crit' = NoCrit
  /\ UNCHANGED <<xl, th, lockRest>>

\* deleteExpired that sleeps with the lock held
LSweepCheckHolds ==
  /\ kind = "exp"
  /\ sweep.pc = "locked"
  /\ lock.w = SweepTask
  /\ LET bucketIndex == xl.nextBucket
         d           == timeToExpire(xl, bucketIndex, now)
     IN  IF d > 0
         THEN /\ sweep' = [pc |-> "sleep", idx |-> bucketIndex,
                           wake |-> now + d]
              /\ xl' = xl
              /\ lock' = lock
              /\ crit' = [NoCrit EXCEPT !.op = "timeToExpire",
                                        !.by = SweepTask]
         ELSE /\ \E order \in RangeOrders(xl.bent[bucketIndex]) :
                   xl' = Fresh(deleteExpiredSweep(xl, bucketIndex, order))
              /\ sweep' = [NoSweep EXCEPT !.pc = "idle"]
              /\ lock' = Unlock(lock, SweepTask)
              /\ crit' = [NoCrit EXCEPT !.op = "deleteExpired",
                                        !.by = SweepTask]
  /\ UNCHANGED <<th, lockRest>>

\* deleteExpired after its first Lock(): bucketIndex and timeToExpire are
\* read; then Unlock() and Sleep, or the removals, the cursor and Unlock()
LSweepCheck ==
  /\ kind = "exp"
  /\ sweep.pc = "locked"
  /\ lock.w = SweepTask
  /\ LET bucketIndex == xl.nextBucket
         d           == timeToExpire(xl, bucketIndex, now)
     IN  IF d > 0
         THEN /\ sweep' = [pc |-> "sleep", idx |-> bucketIndex,
                           wake |-> now + d]
              /\ xl' = xl
              /\ crit' = [NoCrit EXCEPT !.op = "timeToExpire",
                                        !.by = SweepTask]
         ELSE /\ \E order \in RangeOrders(xl.bent[bucketIndex]) :
                   xl' = Fresh(deleteExpiredSweep(xl, bucketIndex, order))
              /\ sweep' = [NoSweep EXCEPT !.pc = "idle"]
              /\ crit' = [NoCrit EXCEPT !.op = "deleteExpired",
                                        !.by = SweepTask]
  /\ lock' = Unlock(lock, SweepTask)
  /\ UNCHANGED <<th, lockRest>>

\* time.Sleep(timeToExpire) returned: the second l.lock.Lock()
LSweepRelock ==
  /\ kind = "exp"
  /\ sweep.pc = "sleep"
  /\ now >= sweep.wake
  /\ CanLock(lock)
  /\ lock' = Lock(lock, SweepTask)
  /\ sweep' = [sweep EXCEPT !.pc = "woken"]
  /\ crit' = NoCrit
  /\ UNCHANGED <<xl, th, lockRest>>

\* deleteExpired after its second Lock(): the removals, the cursor, Unlock()
LSweepFinish ==
  /\ kind = "exp"
  /\ sweep.pc = "woken"
  /\ lock.w = SweepTask
  /\ \E order \in RangeOrders(xl.bent[sweep.idx]) :
       xl' = Fresh(deleteExpiredSweep(xl, sweep.idx, order))
  /\ sweep' = [NoSweep EXCEPT !.pc = "idle"]
  /\ lock' = Unlock(lock, SweepTask)
  /\ crit' = [NoCrit EXCEPT !.op = "deleteExpired", !.by = SweepTask]
  /\ UNCHANGED <<th, lockRest>>

\* the clock; it moves whoever holds the lock
LTick ==
  /\ kind = "exp"
  /\ now < MaxTime
  /\ now' = now + 1
  /\ UNCHANGED <<kind, lru, xl, sweep, facVars, err, lastOp, trace, cbLog,
                 alive>>

NextLocked ==
  \/ \E ttl \in 1..MaxTtl : ExpNew(0, TRUE, ttl)
  \/ \E t \in Threads : CallerWindow /\ LLock(t)
  \/ \E t \in Threads, k \in XKeySet : LAdd(t, k, AVal)
  \/ \E t \in Threads, k \in XKeySet : LGet(t, k)
  \/ \E t \in Threads, k \in XKeySet : LRemove(t, k)
  \/ \E t \in Threads : CallerWindow /\ LCap(t)
  \/ LSweepLock
  \/ LSweepCheck
  \/ LSweepRelock
  \/ LSweepFinish
  \/ LTick

SpecLocked == Init /\ [][NextLocked]_vars

NextStale ==
  \/ \E size \in XSizeArgs, cb \in BOOLEAN, ttl \in TtlArgs : ExpNew(size, cb, ttl)
  \/ \E k \in XKeySet : ExpAdd(k, AVal)
  \/ \E k \in XKeySet : ExpGet(k)
  \/ ExpTick
  \/ ExpSweepStart
  \/ ExpSweepWake
  \/ \E k \in XKeySet : StaleGet(k)
  \/ \E k \in XKeySet : StalePeek(k)

\* the expirable LRU: what Get and Peek of a stale entry return is recorded
SpecStale == Init /\ [][NextStale]_vars

\* ------------------------------------------------------------ the claims

\* Keys() and Values() side by side, oldest first
Pairs(c) == [i \in 1..LRULen(c) |-> <<LRUKeys(c)[i], LRUValues(c)[i]>>]

\* a sequence of <<key, value>> pairs without the pairs of key k
Without(s, k) == LET keep(x) == x[1] # k IN SelectSeq(s, keep)

Last(s) == s[Len(s)]

\* the value Peek finds for each key, NoVal for an absent one
Lookup(c) == [k \in KeySet |-> LRUPeek(c, k).value]

\* C1: after Adds of pairwise distinct keys to an empty basic LRU of capacity
\* C > 0, Keys() is the last min(n, C) keys added, oldest first, the callback
\* ran for exactly the other keys in the order they were added, and Add
\* returned true once per callback.
C1_DistinctAdds ==
  LET n     == Len(trace)
      kept  == IF n < lru.size THEN n ELSE lru.size
      added == [i \in 1..n |-> <<trace[i].key, trace[i].val>>]
  IN  /\ Pairs(lru) = SubSeq(added, n - kept + 1, n)
      /\ cbLog = SubSeq(added, 1, n - kept)
      /\ Cardinality({i \in 1..n : trace[i].evicted}) = Len(cbLog)

C1_Witness ==
  /\ Len(trace) = MaxKey
  /\ Len(cbLog) >= 2
  /\ LRULen(lru) = lru.size

\* C2: between two operations on the basic LRU or on the expirable LRU, a
\* capacity > 0 bounds the number of entries: Len() <= Cap().
C2_LenWithinCap ==
  /\ (kind = "basic" /\ LRUCap(lru) > 0) => LRULen(lru) <= LRUCap(lru)
  /\ (kind = "exp" /\ XCap(xl) > 0) => XLen(xl) <= XCap(xl)

\* an expirable LRU full at capacity 1 that holds key 2 and not key 1, the
\* clock past its start
C2_Witness ==
  /\ kind = "exp"
  /\ XCap(xl) = 1
  /\ XLen(xl) = 1
  /\ xl.entries[2] # NIL
  /\ xl.entries[1] = NIL
  /\ now > 0

\* a basic LRU full at its capacity
C2_WitnessBasic ==
  /\ kind = "basic"
  /\ LRUCap(lru) = 2
  /\ LRULen(lru) = 2

\* C3: Add of a key already present in the basic LRU keeps Len(), stores the
\* new value, makes the key the most recently used one, keeps the order of
\* the other keys, returns false and calls no callback.
C3_AddExisting ==
  [][ (kind = "basic" /\ lastOp'.op = "Add" /\ lastOp'.had) =>
        LET k == lastOp'.key
        IN  /\ LRULen(lru') = LRULen(lru)
            /\ LRUPeek(lru', k).ok /\ LRUPeek(lru', k).value = lastOp'.val
            /\ Last(Pairs(lru')) = <<k, lastOp'.val>>
            /\ Without(Pairs(lru'), k) = Without(Pairs(lru), k)
            /\ lastOp'.ok = FALSE
            /\ lastOp'.cb = << >> ]_vars

C3_Witness ==
  /\ kind = "basic"
  /\ lastOp.op = "Add" /\ lastOp.had
  /\ LRULen(lru) = 3
  /\ lru.onEvict
  /\ LRUKeys(lru)[3] = lastOp.key
  /\ lastOp.val = "b"

\* C4: Peek and Contains on the basic LRU, for a key present or absent, leave
\* the cache as it was (Keys(), Values(), Len(), Cap() and everything else)
\* and call no callback.
C4_PeekContainsFrame ==
  [][ (kind = "basic" /\ lastOp'.op \in {"Peek", "Contains"}) =>
        /\ LRUKeys(lru') = LRUKeys(lru)
        /\ LRUValues(lru') = LRUValues(lru)
        /\ LRULen(lru') = LRULen(lru)
        /\ LRUCap(lru') = LRUCap(lru)
        /\ lru' = lru
        /\ lastOp'.cb = << >>
        /\ lastOp'.ok = lastOp'.had ]_vars

C4_Witness ==
  /\ kind = "basic"
  /\ lastOp.op = "Peek" /\ lastOp.had
  /\ LRULen(lru) = 3
  /\ LRUKeys(lru)[1] = lastOp.key

\* C5: Get of a present key returns its value and true, makes the key the most
\* recently used one and keeps the order of the other keys; Get of an absent
\* key returns false and leaves the cache as it was.
C5_Get ==
  [][ (kind = "basic" /\ lastOp'.op = "Get") =>
        LET k == lastOp'.key
        IN  IF lastOp'.had
            THEN /\ lastOp'.ok
                 /\ lastOp'.rval = Lookup(lru)[k]
                 /\ Last(LRUKeys(lru')) = k
                 /\ Without(Pairs(lru'), k) = Without(Pairs(lru), k)
                 /\ Lookup(lru') = Lookup(lru)
                 /\ LRULen(lru') = LRULen(lru)
                 /\ lastOp'.cb = << >>
            ELSE /\ ~lastOp'.ok
                 /\ lru' = lru
                 /\ lastOp'.cb = << >> ]_vars

C5_Witness ==
  /\ kind = "basic"
  /\ lastOp.op = "Get" /\ lastOp.had /\ lastOp.ok
  /\ LRULen(lru) = 3
  /\ LRUKeys(lru)[3] = lastOp.key
  /\ lastOp.rval = "b"

\* C6: in every reachable state of the basic LRU, Add(k, v) followed at once
\* by Get(k) returns (v, true), and followed at once by Contains(k) returns
\* true.
C6_RoundTrip ==
  [][ ( /\ kind = "basic"
        /\ lastOp.op = "Add"
        /\ lastOp'.op \in {"Get", "Contains"}
        /\ lastOp'.key = lastOp.key ) =>
          /\ lastOp'.ok
          /\ lastOp'.op = "Get" => lastOp'.rval = lastOp.val ]_vars

\* the round trip of C6 in the states whose capacity is at least 1
C6_RoundTripPositiveCap ==
  [][ ( /\ kind = "basic"
        /\ lastOp.op = "Add"
        /\ LRUCap(lru) >= 1
        /\ lastOp'.op \in {"Get", "Contains"}
        /\ lastOp'.key = lastOp.key ) =>
          /\ lastOp'.ok
          /\ lastOp'.op = "Get" => lastOp'.rval = lastOp.val ]_vars

\* the callbacks of the last call, as a set of <<key, value>> pairs
CbSet(op) == {op.cb[i] : i \in 1..Len(op.cb)}

C8_Resize ==
  [][ (kind = "basic" /\ lastOp'.op = "Resize" /\ lastOp'.size >= 0) =>
        LET N == lastOp'.size
            L == LRULen(lru)
        IN  /\ LRUCap(lru') = N
            /\ IF N >= L
               THEN /\ lastOp'.cb = << >>
                    /\ Pairs(lru') = Pairs(lru)
               ELSE /\ LRULen(lru') = N
                    /\ lastOp'.cb = IF lru.onEvict
                                    THEN SubSeq(Pairs(lru), 1, L - N)
                                    ELSE << >>
                    /\ Pairs(lru') = SubSeq(Pairs(lru), L - N + 1, L) ]_vars

C8_Witness ==
  /\ kind = "basic"
  /\ lastOp.op = "Resize"
  /\ lastOp.size = 1
  /\ Len(lastOp.cb) = 2
  /\ LRULen(lru) = 1

\* C9: the integer Resize returns, on the basic LRU and on the thread-safe
\* Cache, is the number of entries the call removed, and is the number of
\* calls of the eviction callback it caused when a callback is set.
\* (lastOp is the call that returned last; for the Cache it is compared with
\* the state at its return, before the next call locks.)
C9_ResizeCount ==
  lastOp.op = "Resize" =>
    /\ kind = "basic" =>
         /\ lastOp.n = lastOp.len0 - LRULen(lru)
         /\ lru.onEvict => lastOp.n = Len(lastOp.cb)
    /\ (kind = "facade" /\ call.pc = "idle") =>
         /\ lastOp.n = lastOp.len0 - CacheLen(fc)
         /\ fc.onEvict => lastOp.n = Len(lastOp.cb)

\* the same for an argument >= 0
C9_ResizeCountNonNegative ==
  (lastOp.op = "Resize" /\ lastOp.size >= 0) =>
    /\ kind = "basic" =>
         /\ lastOp.n = lastOp.len0 - LRULen(lru)
         /\ lru.onEvict => lastOp.n = Len(lastOp.cb)
    /\ (kind = "facade" /\ call.pc = "idle") =>
         /\ lastOp.n = lastOp.len0 - CacheLen(fc)
         /\ fc.onEvict => lastOp.n = Len(lastOp.cb)

\* a Resize of the Cache that removed two entries has returned
C9_WitnessShrink ==
  /\ kind = "facade"
  /\ lastOp.op = "Resize"
  /\ lastOp.n = 2
  /\ Len(lastOp.cb) = 2

\* C10: NewLRU with a capacity <= 0 returns an error and no cache; with a
\* capacity > 0 it returns, without error, an empty cache whose Cap() is the
\* capacity asked for.
C10_NewLRU ==
  lastOp.op = "NewLRU" =>
    IF lastOp.size <= 0
    THEN err /\ kind = "none"
    ELSE /\ ~err
         /\ kind = "basic"
         /\ LRULen(lru) = 0
         /\ LRUKeys(lru) = << >>
         /\ LRUCap(lru) = lastOp.size

C10_Witness ==
  /\ lastOp.op = "NewLRU"
  /\ lastOp.size = 0
  /\ err

C10_WitnessOk ==
  /\ lastOp.op = "NewLRU"
  /\ lastOp.size = MaxSize
  /\ kind = "basic"

\* C11 as amended: NewLRU of the expirable cache accepts a size <= 0 and
\* returns an empty cache of capacity 0, in which Add evicts nothing and
\* calls no callback; NewWithOnEvict of the Cache with a size <= 0 returns
\* an error and a Cache without an LRU, with a size > 0 an empty Cache of
\* that capacity.
C11_Constructors ==
  /\ (kind = "exp" /\ lastOp.op = "NewLRU" /\ lastOp.size <= 0) =>
       /\ ~err
       /\ XCap(xl) = 0
       /\ XLen(xl) = 0
  /\ (kind = "exp" /\ lastOp.op = "Add" /\ XCap(xl) = 0) =>
       /\ ~lastOp.ok
       /\ lastOp.cb = << >>
       /\ XLen(xl) = lastOp.len0 + (IF lastOp.had THEN 0 ELSE 1)
       /\ xl.entries[lastOp.key] # NIL
  /\ (lastOp.op = "NewWithOnEvict" /\ lastOp.size <= 0) =>
       /\ err
       /\ kind = "none"
       /\ fc.lru = NIL
  /\ (lastOp.op = "NewWithOnEvict" /\ lastOp.size > 0 /\ call.pc = "idle") =>
       /\ ~err
       /\ kind = "facade"
       /\ CacheCap(fc) = lastOp.size
       /\ CacheLen(fc) = 0

\* an expirable cache of capacity 0 that took every key
C11_Witness ==
  /\ kind = "exp"
  /\ XCap(xl) = 0
  /\ lastOp.op = "Add"
  /\ XLen(xl) = MaxXKey

\* NewWithOnEvict refused the size 0
C11_WitnessCache ==
  /\ lastOp.op = "NewWithOnEvict"
  /\ lastOp.size = 0
  /\ err

\* C11 as claimed: no constructor of the Cache or of the expirable LRU fails
\* on a size <= 0; each returns a usable cache in which Add evicts nothing.
C11_NoFailure ==
  /\ (kind = "exp" /\ lastOp.op = "NewLRU" /\ lastOp.size <= 0) =>
       /\ ~err
       /\ XCap(xl) = 0
  /\ (kind = "exp" /\ lastOp.op = "Add" /\ XCap(xl) = 0) =>
       /\ ~lastOp.ok
       /\ lastOp.cb = << >>
  /\ (lastOp.op = "NewWithOnEvict" /\ lastOp.size <= 0) =>
       /\ ~err
       /\ kind = "facade"
       /\ fc.lru # NIL

\* C12: a goroutine that runs the user's callback for a call of the Cache
\* holds the lock of the Cache neither for writing nor for reading, whatever
\* the other goroutines do: the callback runs after the call's Unlock().
C12_CallbackOutsideLock ==
  \A t \in Threads :
    (th[t] # Idle /\ Top(t).pc = "cb") =>
      /\ lock.w # t
      /\ t \notin lock.r
      /\ Top(t).todo # << >>

\* one goroutine runs a callback while the other holds the lock
C12_Witness ==
  \E t, u \in Threads :
    /\ t # u
    /\ th[t] # Idle
    /\ Top(t).pc = "cb"
    /\ lock.w = u

\* the pairs owed that are still to deliver: owed without its first i pairs
Rest(owed, i) == SubSeq(owed, i + 1, Len(owed))

\* C14: the pairs a call of the Cache hands to the user's callback are the
\* pairs the LRU removed during that call, each once, in the order of the
\* removals: when the call unlocks it holds exactly those pairs, it delivers
\* them from the first on, and no pair stays in the buffers for another call.
C14_Delivery ==
  kind = "facade" =>
    /\ fc.evictedKeys = << >>
    /\ fc.evictedValues = << >>
    /\ \A t \in Threads :
         th[t] # Idle =>
           /\ \E i \in 0..Len(Top(t).owed) :
                Top(t).todo = Rest(Top(t).owed, i)
           /\ Top(t).pc = "locked" => Top(t).todo = Top(t).owed
           /\ ~fc.onEvict => Top(t).owed = << >>

\* a call that removed two entries has delivered the first and is about to
\* deliver the second, while the other goroutine holds a pair of its own
C14_Witness ==
  \E t, u \in Threads :
    /\ t # u
    /\ th[t] # Idle /\ th[u] # Idle
    /\ Len(Top(t).owed) >= 2
    /\ Top(t).todo = Tail(Top(t).owed)
    /\ Top(t).pc = "cb"
    /\ Top(u).owed # << >>

\* the nodes met from n on by following the links f, up to the sentinel or to
\* a missing link, fuel nodes at most
RECURSIVE Chain(_, _, _)
Chain(f, n, fuel) ==
  IF n = root \/ n = NIL \/ fuel = 0 THEN << >>
  ELSE <<n>> \o Chain(f, f[n], fuel - 1)

Reverse(s) == [i \in 1..Len(s) |-> s[Len(s) + 1 - i]]

\* the index and the list of cache c agree
WellFormed(c) ==
  LET fwd   == Chain(c.next, c.next[root], MaxKey + 1)
      bwd   == Chain(c.prev, c.prev[root], MaxKey + 1)
      nodes == {fwd[i] : i \in 1..Len(fwd)}
  IN  /\ c.next[root] # NIL
      /\ Len(fwd) <= MaxKey
      /\ (IF fwd = << >> THEN c.next[root] ELSE c.next[fwd[Len(fwd)]]) = root
      /\ fwd = Reverse(bwd)
      /\ Cardinality(nodes) = Len(fwd)
      /\ {c.key[n] : n \in nodes} = {k \in KeySet : c.entries[k] # NIL}
      /\ \A i, j \in 1..Len(fwd) : c.key[fwd[i]] = c.key[fwd[j]] => i = j
      /\ \A k \in KeySet :
           c.entries[k] # NIL =>
             /\ c.entries[k] \in nodes
             /\ c.key[c.entries[k]] = k
      /\ c.len = Cardinality(nodes)

\* C19: between two operations of the basic or of the expirable cache, the
\* keys of the index are the keys of the nodes reachable from the sentinel,
\* each key on one node, the tracked length is their number, and the next
\* links visit the nodes the prev links visit, in reverse order.
C19_IndexMatchesList ==
  /\ kind = "basic" => WellFormed(lru)
  /\ kind = "exp" => WellFormed(xl)

\* an expirable cache with every key in it after a sweep has run
C19_Witness ==
  /\ kind = "exp"
  /\ xl.len = MaxXKey
  /\ xl.nextBucket > 0

\* a basic cache with three entries, the first added not the oldest
C19_WitnessBasic ==
  /\ kind = "basic"
  /\ lru.len = MaxSize
  /\ lru.prev[root] # 1

\* C20: between two steps of the callers and of the sweep of the expirable
\* cache, every entry of the index is in the bucket its Bucket field names
\* and in no other, every member of a bucket is an entry of the index, and
\* the newestEntry of a bucket is no earlier than the expiresAt of any of its
\* members.
C20_Buckets ==
  kind = "exp" =>
    /\ \A k \in KeySet :
         xl.entries[k] # NIL =>
           \A b \in BucketIds : k \in xl.bent[b] <=> b = xl.bkt[xl.entries[k]]
    /\ \A b \in BucketIds :
         \A k \in xl.bent[b] :
           /\ xl.entries[k] # NIL
           /\ xl.bnew[b] >= xl.exp[xl.entries[k]]

\* the sweep has emptied bucket 0 and every key is in bucket 1 since
C20_Witness ==
  /\ kind = "exp"
  /\ xl.nextBucket = 1
  /\ xl.bnew[0] > ZeroTime
  /\ Cardinality(xl.bent[1]) = MaxXKey

\* a goroutine never waits for a lock it holds itself: inside the user's
\* callback, where it may call the Cache, it holds none, and the holder of the
\* lock is a call about to Unlock()
NoSelfDeadlock ==
  /\ \A t \in Threads :
       (th[t] # Idle /\ Top(t).pc = "cb") => (lock.w # t /\ t \notin lock.r)
  /\ \A t \in Threads :
       lock.w = t => (th[t] # Idle /\ Top(t).pc = "locked")

\* C13: a callback that calls the Cache does not deadlock, and when the call
\* it made has returned into the callback and no call holds the lock, the
\* index and the list of the LRU agree, Len() <= Cap() and the eviction
\* buffers are empty.
C13_Reentrant ==
  kind = "facade" =>
    /\ NoSelfDeadlock
    /\ \A t \in Threads :
         (th[t] # Idle /\ Top(t).pc = "cb" /\ Top(t).nest /\ CanLock(lock)) =>
           /\ WellFormed(fc.lru)
           /\ CacheLen(fc) <= CacheCap(fc)
           /\ fc.evictedKeys = << >>
           /\ fc.evictedValues = << >>

\* what holds of C13: no deadlock, the index and the list agree, the buffers
\* are empty, and Len() <= Cap() while the capacity is positive
C13_ReentrantPositiveCap ==
  kind = "facade" =>
    /\ NoSelfDeadlock
    /\ \A t \in Threads :
         (th[t] # Idle /\ Top(t).pc = "cb" /\ Top(t).nest /\ CanLock(lock)) =>
           /\ WellFormed(fc.lru)
           /\ CacheCap(fc) > 0 => CacheLen(fc) <= CacheCap(fc)
           /\ fc.evictedKeys = << >>
           /\ fc.evictedValues = << >>

\* C15: ContainsOrAdd(k, v) on a key that is present returns found = true,
\* evicted = false and changes nothing in the cache, neither the value nor
\* the recency order; on a key that is absent it returns found = false and
\* stores v; and of two ContainsOrAdd of two goroutines on the same absent
\* key, one right after the other, the second returns found = true, evicted =
\* false and leaves the value of the first.
C15_Atomic ==
  [][ (lock.w = NoThread /\ lock'.w # NoThread /\ crit'.op = "ContainsOrAdd") =>
        LET k   == crit'.key
            had == fc.lru.entries[k] # NIL
        IN  /\ had =>
                 /\ crit'.found
                 /\ ~crit'.evicted
                 /\ fc' = fc
            /\ ~had =>
                 /\ ~crit'.found
                 /\ LRUPeek(fc'.lru, k).ok
                 /\ LRUPeek(fc'.lru, k).value = crit'.val
            /\ ( /\ crit.op = "ContainsOrAdd"
                 /\ crit.key = k
                 /\ ~crit.found
                 /\ crit.by # crit'.by ) =>
                 /\ crit'.found
                 /\ ~crit'.evicted
                 /\ LRUPeek(fc'.lru, k).value = crit.val
    ]_vars

\* what holds of C15: the same for a Cache whose capacity is positive
C15_AtomicPositiveCap ==
  [][ ( /\ lock.w = NoThread /\ lock'.w # NoThread
        /\ crit'.op = "ContainsOrAdd"
        /\ CacheCap(fc) > 0 ) =>
        LET k   == crit'.key
            had == fc.lru.entries[k] # NIL
        IN  /\ had =>
                 /\ crit'.found
                 /\ ~crit'.evicted
                 /\ fc' = fc
            /\ ~had =>
                 /\ ~crit'.found
                 /\ LRUPeek(fc'.lru, k).ok
                 /\ LRUPeek(fc'.lru, k).value = crit'.val
            /\ ( /\ crit.op = "ContainsOrAdd"
                 /\ crit.key = k
                 /\ ~crit.found
                 /\ crit.by # crit'.by ) =>
                 /\ crit'.found
                 /\ ~crit'.evicted
                 /\ LRUPeek(fc'.lru, k).value = crit.val
    ]_vars

\* the second of two racing ContainsOrAdd found the key of the first, while
\* the first has not returned yet
C15_RaceSeen ==
  /\ crit.op = "ContainsOrAdd"
  /\ crit.found
  /\ lock.w = crit.by
  /\ \E u \in Threads : u # crit.by /\ th[u] # Idle

\* C16: whatever the goroutines interleave of Add, Get and Remove, the Cache
\* holds the pairs, in the recency order, that the single-threaded reference
\* holds after the same calls in the order in which they took the lock, which
\* keeps the order of the calls of each goroutine; when every call has
\* returned, Len() is the number of distinct keys of the reference and Keys()
\* has no key twice.
C16_Serializable ==
  kind = "facade" =>
    /\ Pairs(fc.lru) = ref
    /\ (\A t \in Threads : th[t] = Idle) =>
         /\ CacheLen(fc) = Cardinality({ref[i][1] : i \in 1..Len(ref)})
         /\ \A i, j \in 1..Len(LRUKeys(fc.lru)) :
              LRUKeys(fc.lru)[i] = LRUKeys(fc.lru)[j] => i = j
         /\ CacheLen(fc) <= CacheCap(fc)

\* every call has returned, the Cache is full, its oldest key is not the
\* smallest and its values differ
C16_Witness ==
  /\ kind = "facade"
  /\ \A t \in Threads : th[t] = Idle
  /\ Len(ref) = MaxXKey
  /\ ref[1][1] # 1
  /\ ref[1][2] # ref[2][2]

\* C17: in an expirable cache with a finite ttl, a Get(k) at a time no later
\* than ttl after the last Add(k, v) returns (v, true), when no caller has
\* removed, purged, overwritten, resized away or evicted k since that Add;
\* the sweep runs alongside.
C17_FreshGet ==
  [][ ( /\ kind = "exp"
        /\ lastOp'.op = "Get"
        /\ alive # NoAlive
        /\ alive[lastOp'.key].on
        /\ xl.ttl # noEvictionTTL
        /\ now <= alive[lastOp'.key].t + xl.ttl ) =>
        /\ lastOp'.ok
        /\ lastOp'.rval = alive[lastOp'.key].v
    ]_vars

\* C18: a Get or a Peek of a key whose entry is in the index with the time
\* past its expiresAt returns found = false, calls no callback and leaves
\* the cache as it was: Len(), the index, the list and its order, the buckets.
C18_StaleReads ==
  [][ ( /\ kind = "exp"
        /\ lastOp'.op \in {"Get", "Peek"}
        /\ Stale(xl, lastOp'.key, now) ) =>
        /\ ~lastOp'.ok
        /\ lastOp'.rval = NoVal
        /\ lastOp'.cb = << >>
        /\ xl' = xl
    ]_vars

\* a Get missed an entry that is still in the index, in the list and in its
\* bucket, with another entry behind it in the list
C18_Witness ==
  /\ kind = "exp"
  /\ lastOp.op = "Get"
  /\ ~lastOp.ok
  /\ Stale(xl, lastOp.key, now)
  /\ xl.list[xl.entries[lastOp.key]]
  /\ lastOp.key \in xl.bent[xl.bkt[xl.entries[lastOp.key]]]
  /\ xl.len = MaxXKey

\* a Peek missed an entry that is still in the index
C18_WitnessPeek ==
  /\ kind = "exp"
  /\ lastOp.op = "Peek"
  /\ ~lastOp.ok
  /\ Stale(xl, lastOp.key, now)

\* the keys of the list of the expirable cache c, oldest first, whether
\* expired or not
ListKeys(c) == [i \in 1..Len(WalkAll(c)) |-> c.key[WalkAll(c)[i]]]

\* C21: a finished run of deleteExpired on the bucket at the cursor i leaves
\* bucket i empty, has removed every entry that was in bucket i from the
\* index and the list with one callback each (when the cache has a
\* callback), leaves the entries of the other buckets as they were, and sets the cursor to (i + 1) mod 100; the
\* cursor is within 0..99 and no other step changes it.
C21_Sweep ==
  [][ /\ kind' = "exp" => xl'.nextBucket \in 0..99
      /\ (kind = "exp" /\ lastOp'.op # "deleteExpired") =>
           xl'.nextBucket = xl.nextBucket
      /\ (kind = "exp" /\ lastOp'.op = "deleteExpired") =>
           LET i == lastOp'.n
               S == xl.bent[i]
               stays(k) == k \notin S
           IN  /\ i = xl.nextBucket
               /\ xl'.nextBucket = (i + 1) % 100
               /\ xl'.bent[i] = {}
               /\ \A k \in S : xl'.entries[k] = NIL
               /\ ListKeys(xl') = SelectSeq(ListKeys(xl), stays)
               /\ XLen(xl') = XLen(xl) - Cardinality(S)
               /\ xl.onEvict =>
                    /\ Len(lastOp'.cb) = Cardinality(S)
                    /\ CbSet(lastOp') = {<<k, xl.val[xl.entries[k]]>> : k \in S}
               /\ ~xl.onEvict => lastOp'.cb = << >>
               /\ \A k \in KeySet \ S :
                    /\ xl'.entries[k] = xl.entries[k]
                    /\ xl.entries[k] # NIL =>
                         /\ xl'.val[xl.entries[k]] = xl.val[xl.entries[k]]
                         /\ xl'.exp[xl.entries[k]] = xl.exp[xl.entries[k]]
                         /\ xl'.bkt[xl.entries[k]] = xl.bkt[xl.entries[k]]
               /\ \A b \in BucketIds \ {i} : xl'.bent[b] = xl.bent[b]
    ]_vars

\* the sweep of the last bucket removed every key and the cursor is back on
\* the first bucket
C21_Witness ==
  /\ kind = "exp"
  /\ lastOp.op = "deleteExpired"
  /\ lastOp.n = 99
  /\ Len(lastOp.cb) = MaxXKey
  /\ xl.nextBucket = 0
  /\ xl.len = 0

StructureOps == {"Add", "Get", "Remove", "timeToExpire", "deleteExpired"}

\* C23: deleteExpired does not hold l.lock while it sleeps, so that a caller
\* whose call arrives during the sleep gets the lock as soon as no other
\* caller has it, and completes; and every step that reads or writes the
\* index, the recency list, the buckets or the cursor is a step of the task
\* that holds the lock.
C23_SleepsUnlocked ==
  [][ kind = "exp" =>
        /\ sweep'.pc = "sleep" =>
             /\ lock'.w # SweepTask
             /\ (\A t \in Threads : th'[t] = Idle) => CanLock(lock')
             /\ \A t \in Threads : lock'.w = t => th'[t] # Idle
        /\ (sweep.pc = "sleep" /\ lock.w \in Threads) =>
             \/ sweep'.pc = "sleep"
             \/ now' >= sweep.wake /\ lock.w # lock'.w
        /\ xl' # xl => crit'.op \in StructureOps
        /\ (crit' # crit /\ crit'.op \in StructureOps) =>
             /\ lock.w # NoThread
             /\ lock.w = crit'.by
             /\ \A t \in Threads : t # lock.w => th[t] = Idle
             /\ lock.w # SweepTask => sweep.pc \in {"off", "idle", "sleep"}
    ]_vars

\* a caller's Add has just completed while deleteExpired sleeps with time
\* left to sleep, and the entry is in the bucket deleteExpired sleeps on
C23_Witness ==
  /\ kind = "exp"
  /\ sweep.pc = "sleep"
  /\ now < sweep.wake
  /\ crit.op = "Add"
  /\ crit.by \in Threads
  /\ CanLock(lock)
  /\ xl.entries[crit.key] # NIL
  /\ crit.key \in xl.bent[sweep.idx]
  /\ xl.len = MaxXKey

\* the two eviction buffers of the Cache
Buffers(c) == <<c.evictedKeys, c.evictedValues>>

\* the pairs the top call of goroutine t holds in its local variables
Held(f, t) == IF f[t] = Idle THEN << >> ELSE Head(f[t]).todo

\* C24: evictedKeys and evictedValues have the same length in every state;
\* they are empty whenever no goroutine holds the exclusive lock, readers or
\* callbacks running or not; a step that changes them is a step of the
\* goroutine that holds the exclusive lock, and so is the step in which a
\* call takes pairs out of them.
C24_Buffers ==
  /\ [](kind = "facade" =>
          /\ Len(fc.evictedKeys) = Len(fc.evictedValues)
          /\ lock.w = NoThread => Buffers(fc) = << << >>, << >> >>
          /\ ~fc.onEvict => Buffers(fc) = << << >>, << >> >>)
  /\ [][ kind = "facade" =>
           /\ Buffers(fc') # Buffers(fc) =>
                /\ lock'.w \in Threads
                /\ lock'.r = {}
                /\ lock.w \in {NoThread, lock'.w}
                /\ th'[lock'.w] # th[lock'.w]
                /\ \A u \in Threads : u # lock'.w => th'[u] = th[u]
           /\ \A t \in Threads :
                (Held(th', t) # << >> /\ Held(th, t) = << >>) =>
                  /\ lock.w = t
                  /\ lock'.w = t
                  /\ Top(t).pc \in Takes
                  /\ Held(th', t) = Pending(fc, fc.evictedKeys,
                                            fc.evictedValues)
       ]_vars

\* Resize has removed two entries: their pairs are in the buffers, the call
\* holds the lock and has not taken them yet, and the other goroutine is
\* inside the user's callback
C24_Witness ==
  \E t, u \in Threads :
    /\ kind = "facade"
    /\ t # u
    /\ lock.w = t
    /\ th[t] # Idle /\ Top(t).pc = "takeAll"
    /\ Len(fc.evictedKeys) = 2
    /\ th[u] # Idle /\ Top(u).pc = "cb"

\* Resize with a negative size on an empty cache is about to take the pairs
\* and there are none
C24_WitnessResize ==
  \E t \in Threads :
    /\ kind = "facade"
    /\ lock.w = t
    /\ th[t] # Idle /\ Top(t).pc = "takeAll"
    /\ fc.evictedKeys = << >>
    /\ fc.lru.size < 0

\* Purge of an empty cache with a callback has taken nothing
C24_WitnessPurge ==
  \E t \in Threads :
    /\ kind = "facade"
    /\ lock.w = t
    /\ th[t] # Idle /\ Top(t).pc = "takeAny"
    /\ fc.onEvict
    /\ fc.evictedKeys = << >>

=============================================================================
